---- MODULE Spec2Model ----
(***************************************************************************)
(* ez-fm: the lazy folder-size scheduler of the renderer                   *)
(* (src/portal-service.js) and the batch transfer engine of the main       *)
(* process (src/unnamed/part_000, handler "batch-file-operation").         *)
(***************************************************************************)
EXTENDS Naturals, Integers, Sequences, FiniteSets, TLC

(***************************************************************************)
(* Bounds of the model                                                     *)
(***************************************************************************)
MaxQueue == 3
MaxDepth == 4
MaxSize == 1
MaxItems == 2
MaxDrag == 2
MaxExtra == 2
MaxPathLen == 21
MaxRows == 2
MaxDots == 4
MaxPending == 2

(***************************************************************************)
(* Program constants                                                       *)
(***************************************************************************)
FOLDER_SIZE_CONCURRENCY == 3
MAX_FOLDER_SIZE_CACHE_ENTRIES == 500
MAX_HISTORY_LENGTH == 50
\* the literal of while (depth < 20) in handleArchiveBrowsing
SafetyLimit == 20

(***************************************************************************)
(* Folder-size scheduler: state                                            *)
(***************************************************************************)
VARIABLES
  folderSizeCache,     \* path -> NoEntry or [size, mtime]
  folderSizeInFlight,  \* set of paths: the keys of the in-flight map
  folderSizeQueue,     \* sequence of paths
  folderSizeActive,    \* number of running computations
  currentItems,        \* the listing shown: path -> NoItem or its mtime
  calls,               \* path -> number of getItemInfo calls not yet returned
  cells,               \* path -> the size cell of its row in the file list
  ttlElapsed           \* clock: FOLDER_SIZE_CACHE_TTL_MS passed since the
                       \* last write to the cache

schedVars == <<folderSizeCache, folderSizeInFlight, folderSizeQueue,
               folderSizeActive, currentItems, calls, cells, ttlElapsed>>

(***************************************************************************)
(* Transfer engine: state                                                  *)
(***************************************************************************)
VARIABLES
  items,           \* the batch: a sequence of [source, dest]
  operation,       \* "copy" or "move"
  xdev,            \* the trees /a and /b lie on different devices
  fs,              \* the filesystem: path -> node
  phase,           \* "scan", "exec" or "done"
  idx,             \* position of the for..of loop of the current phase
  stack,           \* pending calls of scan / copyRecursive, innermost first
  totalBytes, processedBytes, totalFiles, processedFiles,
  itemSizes,       \* source path -> bytes found under it by the scan
  events,          \* percentages sent on "file-operation-progress"
  result,          \* "none", "success" or "failure": the value returned
  fs0,             \* history: the filesystem when the handler was called
  opItem,          \* history: item of the last execute-phase operation
  threw,           \* history: item whose processing threw, 0 if none
  renameFailed,    \* history: some fs.rename of the batch failed
  rewritten        \* another process rewrote a source file meanwhile

xferVars == <<items, operation, xdev, fs, phase, idx, stack, totalBytes,
              processedBytes, totalFiles, processedFiles, itemSizes, events,
              result, fs0, opItem, threw, renameFailed, rewritten>>

(***************************************************************************)
(* Callers of the transfer engine (paste, handleFileDrop): state           *)
(***************************************************************************)
VARIABLES
  caller,          \* "idle", "paste" or "drop": the handler that is running
  sourcePaths,     \* clipboardItems of paste / sourcePaths of handleFileDrop
  targetDir,       \* currentPath of paste / targetDir of handleFileDrop
  srcIdx,          \* position of the for..of loop over the sources
  batchItems,      \* the batch built so far
  sent             \* batchItems was handed to batchFileOperation

callVars == <<caller, sourcePaths, targetDir, srcIdx, batchItems, sent>>

(***************************************************************************)
(* Size cache, as an insertion-ordered Map: state                          *)
(***************************************************************************)
VARIABLES
  cacheKeys,       \* the keys of folderSizeCache in insertion order
  saveTimer,       \* the timeout of saveFolderSizeCache is pending
  lastSet          \* history: the key of the last folderSizeCache.set

cacheVars == <<cacheKeys, saveTimer, lastSet>>

(***************************************************************************)
(* Directory lister ("get-directory-contents", handleArchiveBrowsing):     *)
(* state                                                                   *)
(***************************************************************************)
VARIABLES
  dirPath,         \* the path asked for: a sequence of segment names
  pathKinds,       \* the filesystem along dirPath: prefix length -> kind
  dirEntries,      \* what fs.readdir returns for dirPath, in its order
  toolOutput,      \* what the 7z listing returns: [ok, rows]
  lphase,          \* "readdir", "walk", "tool" or "done"
  archivePath,     \* the walk: length of the prefix of dirPath examined
  internalPath,    \* the walk: the segments stripped so far
  depth,           \* the walk: the loop counter
  statCount,       \* history: number of fs.stat calls of the walk
  listing,         \* the value returned: [status, error, contents, isArchive]
  previous         \* history: the value returned by the call before this one

listVars == <<dirPath, pathKinds, dirEntries, toolOutput, lphase,
              archivePath, internalPath, depth, statCount, listing,
              previous>>

(***************************************************************************)
(* Navigation history of the renderer: state                               *)
(***************************************************************************)
VARIABLES
  history,         \* the paths visited, oldest first
  historyIndex,    \* 0-based position in history, -1 when it is empty
  currentPath,     \* the path of the listing shown
  navPending       \* the getDirectoryContents calls that have not returned:
                   \* [kind, path], in the order they were made

navVars == <<history, historyIndex, currentPath, navPending>>

vars == <<schedVars, xferVars, callVars, cacheVars, listVars, navVars>>

\* what the operations of one component leave alone
offSched == <<xferVars, callVars, cacheVars, listVars, navVars>>
offXfer == <<schedVars, callVars, cacheVars, listVars, navVars>>
offCall == <<schedVars, xferVars, cacheVars, listVars, navVars>>
offCache == <<schedVars, xferVars, callVars, listVars, navVars>>
offList == <<schedVars, xferVars, callVars, cacheVars, navVars>>
offNav == <<schedVars, xferVars, callVars, cacheVars, listVars>>

(***************************************************************************)
(* Folder-size scheduler: helpers and operations                           *)
(***************************************************************************)
\* two directories; folder p lies in directory DirOf(p)
Dirs == {1, 2}
\* one folder more than there are slots
NumFolders == FOLDER_SIZE_CONCURRENCY + 1
Folders == 1..NumFolders
DirOf(p) == (p % 2) + 1
\* an older and a newer modification time; one aggregate size
Mtimes == {1, 2}
FolderSizes == {1}

NoEntry == [size |-> -1, mtime |-> -1]
NoItem == 0

\* the listing of directory d: every folder of d with a modification time
Listings(d) ==
  { l \in [Folders -> {NoItem} \cup Mtimes] :
      \A p \in Folders : (l[p] # NoItem) <=> (DirOf(p) = d) }

\* variant: the modification time of the listing is never found
CurrentMtimeZero(shown, p) == 0

\* const currentMtime = item && item.modified ? getTime() : 0
CurrentMtime(shown, p) == shown[p]

\* variant: any entry counts as fresh, whatever its modification time
FreshAnyMtime(cache, shown, p) == cache[p] # NoEntry

\* const fresh = cached && cached.mtime === currentMtime ? cached : null
Fresh(cache, shown, p) ==
  /\ cache[p] # NoEntry
  /\ cache[p].mtime = CurrentMtime(shown, p)

\* the size cell of a row: absent, a spinner, a dash or a formatted size
NoCell == [k |-> "none", size |-> 0]
Spinner == [k |-> "spinner", size |-> 0]
Dash == [k |-> "dash", size |-> 0]
SizeCell(n) == [k |-> "size", size |-> n]

\* updateFolderSizeCell(p, size): nothing when the row is not in the list
UpdateFolderSizeCell(cs, shown, p, c) ==
  IF shown[p] = NoItem THEN cs ELSE [cs EXCEPT ![p] = c]

\* variant: the dequeue step does not look at the in-flight map
AlreadyRunningUnchecked(inflight, p) == FALSE

\* the in-flight test of drainFolderSizeQueue before it starts a computation
AlreadyRunning(inflight, p) == p \in inflight

\* variant: the slot test written with <= instead of <
HasSlotOffByOne(active) == active <= FOLDER_SIZE_CONCURRENCY

\* the loop condition of drainFolderSizeQueue
HasSlot(active) == active < FOLDER_SIZE_CONCURRENCY

\* st = [q, inflight, active, calls, cells]
RECURSIVE Drain(_, _, _)
Drain(st, cache, shown) ==
  IF ~(HasSlot(st.active) /\ Len(st.q) > 0) THEN st
  ELSE LET p == Head(st.q)
           rest == [st EXCEPT !.q = Tail(st.q)]
       IN IF Fresh(cache, shown, p)
          THEN Drain([rest EXCEPT !.cells = UpdateFolderSizeCell(
                                      @, shown, p, SizeCell(cache[p].size))],
                     cache, shown)
          ELSE IF AlreadyRunning(st.inflight, p) THEN Drain(rest, cache, shown)
          ELSE Drain([rest EXCEPT !.active = @ + 1,
                                  !.calls[p] = @ + 1,
                                  !.inflight = @ \cup {p}],
                     cache, shown)

EnqueueFolderSize(st, cache, shown, p) ==
  Drain([st EXCEPT !.q = Append(@, p)], cache, shown)

\* variant: the request does not look at the in-flight map
InFlightHasNever(inflight, p) == FALSE

\* folderSizeInFlight.has(folderPath) in scheduleVisibleFolderSizes
InFlightHas(inflight, p) == p \in inflight

RECURSIVE ScheduleRows(_, _, _, _)
ScheduleRows(rows, st, cache, shown) ==
  IF rows = <<>> THEN st
  ELSE LET p == Head(rows)
           next == IF Fresh(cache, shown, p)
                   THEN [st EXCEPT !.cells[p] = SizeCell(cache[p].size)]
                   ELSE IF ~InFlightHas(st.inflight, p)
                        THEN EnqueueFolderSize(st, cache, shown, p)
                        ELSE st
       IN ScheduleRows(Tail(rows), next, cache, shown)

\* the folder rows of the file list, in display order
RowsOf(shown) == SelectSeq([i \in 1..NumFolders |-> i],
                           LAMBDA p : shown[p] # NoItem)

ScheduleVisibleFolderSizes(st, cache, shown) ==
  ScheduleRows(RowsOf(shown), st, cache, shown)

SchedState == [q |-> folderSizeQueue, inflight |-> folderSizeInFlight,
               active |-> folderSizeActive, calls |-> calls, cells |-> cells]

\* renderFiles builds the rows: renderItem reads cached.ts, which no entry
\* has, so every folder row starts with the spinner
RenderRows(st, shown) ==
  [st EXCEPT !.cells = [p \in Folders |->
                          IF shown[p] = NoItem THEN NoCell ELSE Spinner]]

SetSched(st) ==
  /\ Len(st.q) <= MaxQueue
  /\ folderSizeQueue' = st.q
  /\ folderSizeInFlight' = st.inflight
  /\ folderSizeActive' = st.active
  /\ calls' = st.calls
  /\ cells' = st.cells

InitSched ==
  /\ folderSizeCache = [p \in Folders |-> NoEntry]
  /\ folderSizeInFlight = {}
  /\ folderSizeQueue = <<>>
  /\ folderSizeActive = 0
  /\ currentItems = [p \in Folders |-> NoItem]
  /\ calls = [p \in Folders |-> 0]
  /\ cells = [p \in Folders |-> NoCell]
  /\ ttlElapsed = FALSE

\* variant: finishNavigation also forgets the running computations
AfterNavigateCancels(l) ==
  LET cleared == RenderRows([SchedState EXCEPT
                               !.q = <<>>, !.inflight = {}, !.active = 0,
                               !.calls = [p \in Folders |-> 0]], l)
      once == ScheduleVisibleFolderSizes(cleared, folderSizeCache, l)
  IN ScheduleVisibleFolderSizes(once, folderSizeCache, l)

\* the scheduler after navigateTo succeeded with the listing l:
\* folderSizeQueue.length = 0, the rows rendered and scheduled twice
AfterNavigate(l) ==
  LET cleared == RenderRows([SchedState EXCEPT !.q = <<>>], l)
      once == ScheduleVisibleFolderSizes(cleared, folderSizeCache, l)
  IN ScheduleVisibleFolderSizes(once, folderSizeCache, l)

\* the scheduler after goBack, goForward or activateTab showed the listing l
AfterHistory(l) ==
  ScheduleVisibleFolderSizes(RenderRows(SchedState, l), folderSizeCache, l)

\* navigateTo succeeds with the listing l: finishNavigation clears the queue
\* and renders, renderFiles schedules the rows, navigateTo schedules again
NavigateTo(d, l) ==
  /\ currentItems' = l
  /\ SetSched(AfterNavigate(l))
  /\ UNCHANGED <<folderSizeCache, ttlElapsed>>
  /\ UNCHANGED offSched

\* goBack, goForward or activateTab succeeds with the listing l: the new
\* listing is rendered; finishNavigation is not called, the queue is kept
HistoryNavigate(d, l) ==
  /\ \E p \in Folders : currentItems[p] # NoItem
  /\ currentItems' = l
  /\ SetSched(AfterHistory(l))
  /\ UNCHANGED <<folderSizeCache, ttlElapsed>>
  /\ UNCHANGED offSched

\* renderFiles on the current listing (sort, filter, view change, scroll)
RenderFiles ==
  /\ SetSched(ScheduleVisibleFolderSizes(
                RenderRows(SchedState, currentItems), folderSizeCache,
                currentItems))
  /\ UNCHANGED <<folderSizeCache, currentItems, ttlElapsed>>
  /\ UNCHANGED offSched

\* variant: the finally block leaves the entry of the in-flight map
FinallyKeepsEntry(st, p) == [st EXCEPT !.active = @ - 1]

\* the finally block of a computation
Finally(st, p) ==
  [st EXCEPT !.active = @ - 1, !.inflight = @ \ {p}]

\* variant: the finally block does not call drainFolderSizeQueue
AfterOkNoDrain(p, size, mtime) ==
  LET cache == [folderSizeCache EXCEPT ![p] =
                  [size |-> size, mtime |-> mtime]]
      returned == [SchedState EXCEPT
                     !.calls[p] = @ - 1,
                     !.cells = UpdateFolderSizeCell(@, currentItems, p,
                                                    SizeCell(size))]
  IN [sched |-> Finally(returned, p), cache |-> cache]

\* the scheduler and the cache after the computation of p returned a size:
\* the entry is stored, the cell shows the size, the finally block releases
\* the slot and drains the queue
AfterOk(p, size, mtime) ==
  LET cache == [folderSizeCache EXCEPT ![p] =
                  [size |-> size, mtime |-> mtime]]
      returned == [SchedState EXCEPT
                     !.calls[p] = @ - 1,
                     !.cells = UpdateFolderSizeCell(@, currentItems, p,
                                                    SizeCell(size))]
  IN [sched |-> Drain(Finally(returned, p), cache, currentItems),
      cache |-> cache]

\* getItemInfo(p) returns with a size and the folder's mtime
CompleteOk(p, size, mtime) ==
  /\ calls[p] > 0
  /\ folderSizeCache' = AfterOk(p, size, mtime).cache
  /\ SetSched(AfterOk(p, size, mtime).sched)
  /\ ttlElapsed' = FALSE
  /\ UNCHANGED currentItems
  /\ UNCHANGED offSched

\* variant: a failed computation stores an entry of size 0
AfterFailStoresEntry(p) ==
  LET returned == [SchedState EXCEPT
                     !.calls[p] = @ - 1,
                     !.cells = UpdateFolderSizeCell(@, currentItems, p, Dash)]
      cache == [folderSizeCache EXCEPT ![p] = [size |-> 0, mtime |-> 0]]
  IN [sched |-> Drain(Finally(returned, p), cache, currentItems),
      cache |-> cache]

\* the scheduler and the cache after the computation of p failed: the cell
\* shows the dash, nothing is stored, the finally block drains the queue
AfterFail(p) ==
  LET returned == [SchedState EXCEPT
                     !.calls[p] = @ - 1,
                     !.cells = UpdateFolderSizeCell(@, currentItems, p, Dash)]
  IN [sched |-> Drain(Finally(returned, p), folderSizeCache, currentItems),
      cache |-> folderSizeCache]

\* getItemInfo(p) returns a failure or rejects
CompleteFail(p) ==
  /\ calls[p] > 0
  /\ SetSched(AfterFail(p).sched)
  /\ folderSizeCache' = AfterFail(p).cache
  /\ UNCHANGED <<currentItems, ttlElapsed>>
  /\ UNCHANGED offSched

\* the clock advances: every entry of the cache is now older than the TTL
TtlPasses ==
  /\ ~ttlElapsed
  /\ \E p \in Folders : folderSizeCache[p] # NoEntry
  /\ ttlElapsed' = TRUE
  /\ UNCHANGED <<folderSizeCache, folderSizeInFlight, folderSizeQueue,
                 folderSizeActive, currentItems, calls, cells>>
  /\ UNCHANGED offSched

\* the view is sorted by size: updateFolderSizeCell has queued the microtask
\* renderFiles() for the size it wrote in the row of p, and the microtask runs
\* once the finally block has returned
AfterOkSorted(p, size, mtime) ==
  LET done == AfterOk(p, size, mtime)
  IN IF currentItems[p] = NoItem THEN done
     ELSE [sched |-> ScheduleVisibleFolderSizes(
                       RenderRows(done.sched, currentItems), done.cache,
                       currentItems),
           cache |-> done.cache]

\* getItemInfo(p) returns with a size while the view is sorted by size
CompleteOkSorted(p, size, mtime) ==
  /\ calls[p] > 0
  /\ folderSizeCache' = AfterOkSorted(p, size, mtime).cache
  /\ SetSched(AfterOkSorted(p, size, mtime).sched)
  /\ ttlElapsed' = FALSE
  /\ UNCHANGED currentItems
  /\ UNCHANGED offSched

\* the getItemInfo call for p returns, in one way or another
Returns(p) ==
  \/ \E s \in FolderSizes : \E m \in Mtimes : CompleteOkSorted(p, s, m)
  \/ CompleteFail(p)

Quiet == folderSizeQueue = <<>> /\ folderSizeInFlight = {}

\* the user navigates or has the list rendered once the scheduler is quiet
\* and leaves it alone until it is quiet again
UserStep ==
  /\ Quiet
  /\ \/ \E d \in Dirs : \E l \in Listings(d) : NavigateTo(d, l)
     \/ RenderFiles

NextSorted ==
  \/ UserStep
  \/ \E p \in Folders : Returns(p)

NextSched ==
  \/ \E d \in Dirs : \E l \in Listings(d) : NavigateTo(d, l)
  \/ RenderFiles
  \/ \E p \in Folders : \E s \in FolderSizes : \E m \in Mtimes :
        CompleteOk(p, s, m)
  \/ \E p \in Folders : CompleteFail(p)



(***************************************************************************)
(* Transfer engine: the filesystem                                         *)
(***************************************************************************)
Names == <<"a", "b">>
NameSet == {Names[i] : i \in 1..Len(Names)}

\* absolute paths below the root, as sequences of names; MaxDepth stands
\* for the longest path the filesystem accepts (ENAMETOOLONG beyond it)
PathsOfLen(n) == [1..n -> NameSet]
Paths == UNION {PathsOfLen(n) : n \in 1..MaxDepth}

NoNode == [k |-> "none", size |-> 0, data |-> <<>>]
DirNode == [k |-> "dir", size |-> 0, data |-> <<>>]
\* a directory that fs.stat reports and fs.readdir refuses to read (EACCES)
LockedNode == [k |-> "locked", size |-> 0, data |-> <<>>]
FileNode(s, d) == [k |-> "file", size |-> s, data |-> d]

Node(f, p) ==
  IF p = <<>> THEN DirNode ELSE IF p \in Paths THEN f[p] ELSE NoNode

Parent(p) == SubSeq(p, 1, Len(p) - 1)

\* p is q or an ancestor of q
IsPrefix(p, q) == Len(p) <= Len(q) /\ SubSeq(q, 1, Len(p)) = p

Unrelated(p, q) == ~IsPrefix(p, q) /\ ~IsPrefix(q, p)

\* path.join(p, child)
Join(p, n) == Append(p, n)

\* fs.readdir: the names of the entries of directory p
Readdir(f, p) ==
  SelectSeq(Names, LAMBDA n : Node(f, Join(p, n)).k # "none")

\* fs.mkdir(p, {recursive: true})
MkdirOk(f, p) ==
  /\ p \in Paths
  /\ \A i \in 1..Len(p) : Node(f, SubSeq(p, 1, i)).k # "file"

Mkdir(f, p) ==
  [q \in Paths |-> IF IsPrefix(q, p) /\ f[q].k = "none" THEN DirNode ELSE f[q]]

\* fs.copyFile(s, d)
CopyFileOk(f, s, d) ==
  /\ Node(f, s).k = "file"
  /\ d \in Paths
  /\ Node(f, d).k \notin {"dir", "locked"}
  /\ Node(f, Parent(d)).k = "dir"

\* variant: the copy is reported done but nothing was written
CopyFileLost(f, s, d) == f

CopyFile(f, s, d) == [f EXCEPT ![d] = f[s]]

\* the part of q below its prefix p
Below(p, q) == SubSeq(q, Len(p) + 1, Len(q))

HasEntries(f, p) == \E n \in NameSet : Node(f, Join(p, n)).k # "none"

\* fs.rename(s, d); xd: the two top-level trees lie on different devices
RenameOk(f, s, d, xd) ==
  /\ Node(f, s).k # "none"
  /\ d \in Paths
  /\ Node(f, Parent(d)).k = "dir"
  /\ \/ s = d
     \/ /\ ~IsPrefix(s, d)
        /\ ~(xd /\ s[1] # d[1])
        /\ \A q \in Paths : IsPrefix(s, q) /\ f[q].k # "none"
              => (d \o Below(s, q)) \in Paths
        /\ IF Node(f, s).k \in {"dir", "locked"}
           THEN Node(f, d).k = "none"
                  \/ (Node(f, d).k = "dir" /\ ~HasEntries(f, d))
           ELSE Node(f, d).k \notin {"dir", "locked"}

\* variant: the destination is written but the source is left in place
RenameKeepsSource(f, s, d) ==
  IF s = d THEN f
  ELSE [q \in Paths |->
          IF IsPrefix(d, q) THEN Node(f, s \o Below(d, q)) ELSE f[q]]

Rename(f, s, d) ==
  IF s = d THEN f
  ELSE [q \in Paths |->
          IF IsPrefix(d, q) THEN Node(f, s \o Below(d, q))
          ELSE IF IsPrefix(s, q) THEN NoNode
          ELSE f[q]]

\* fs.rm(s, {recursive: true, force: true})
Rm(f, s) == [q \in Paths |-> IF IsPrefix(s, q) THEN NoNode ELSE f[q]]


(***************************************************************************)
(* Transfer engine: the handler of "batch-file-operation"                  *)
(***************************************************************************)
Sizes == 0..MaxSize

Frame(op, src, dest, size, item) ==
  [op |-> op, src |-> src, dest |-> dest, size |-> size, item |-> item]

\* scan(item.source, item.source)
ScanFrame(i) == Frame("scan", items[i].source, items[i].source, 0, i)

\* the body of the execute loop for item i
ItemFrame(i) ==
  IF operation = "copy"
  THEN Frame("copy", items[i].source, items[i].dest, 0, i)
  ELSE Frame("rename", items[i].source, items[i].dest, 0, i)

\* variant: the floor of totalBytes is missing
FloorTotalMissing(t) == t

\* if (totalBytes === 0) totalBytes = 1
FloorTotal(t) == IF t = 0 THEN 1 ELSE t

\* a percentage is kept as the exact fraction <<numerator, denominator>>
PercentLeq(x, y) == x[1] * y[2] <= y[1] * x[2]

\* variant: the percentage is not clamped
PercentUnclamped(processed, total) == <<processed * 100, total>>

\* Math.min(100, (processedBytes / totalBytes) * 100)
Percent(processed, total) ==
  IF processed >= total THEN <<100, 1>> ELSE <<processed * 100, total>>

\* variant: = written for +=
CreditAssigned(processed, size) == size

\* processedBytes += size
Credit(processed, size) == processed + size

\* variant: the call for an item is not awaited
ItemDoneNoAwait(stk) == TRUE

\* the await of the execute loop: the next item starts when the call returned
ItemDone(stk) == stk = <<>>

\* control after a step of the scan phase left the calls stk
AfterScan(stk) ==
  IF stk # <<>> THEN [phase |-> "scan", idx |-> idx, stack |-> stk]
  ELSE IF idx < Len(items)
       THEN [phase |-> "scan", idx |-> idx + 1, stack |-> <<ScanFrame(idx + 1)>>]
       ELSE [phase |-> "exec", idx |-> 1, stack |-> <<ItemFrame(1)>>]

\* variant: the handler returns success as soon as one item is done
AfterExecReturnsEarly(stk) ==
  IF ~ItemDone(stk)
  THEN [phase |-> "exec", idx |-> idx, stack |-> stk, result |-> "none"]
  ELSE [phase |-> "done", idx |-> idx, stack |-> <<>>, result |-> "success"]

\* control after a step of the execute phase left the calls stk
AfterExec(stk) ==
  IF ~ItemDone(stk)
  THEN [phase |-> "exec", idx |-> idx, stack |-> stk, result |-> "none"]
  ELSE IF idx < Len(items)
       THEN [phase |-> "exec", idx |-> idx + 1,
             stack |-> <<ItemFrame(idx + 1)>> \o stk, result |-> "none"]
       ELSE [phase |-> "done", idx |-> idx, stack |-> <<>>,
             result |-> "success"]

\* variant: the catch sits inside the loop and goes on with the next item
OnErrorContinue(i) ==
  IF i < Len(items)
  THEN [phase |-> "exec", idx |-> i + 1, stack |-> <<ItemFrame(i + 1)>>,
        result |-> "none"]
  ELSE [phase |-> "done", idx |-> i, stack |-> <<>>, result |-> "success"]

\* the catch around the execute loop: return { success: false, error }
OnError(i) ==
  [phase |-> "done", idx |-> i, stack |-> <<>>, result |-> "failure"]

Top == Head(stack)
Rest == Tail(stack)

\* frames for the entries of directory src, in readdir order
ChildFrames(op, f, src, dest, item) ==
  LET names == Readdir(f, src)
  IN [i \in 1..Len(names) |->
        Frame(op, Join(src, names[i]),
              IF op = "scan" THEN dest ELSE Join(dest, names[i]), 0, item)]

SetControl(c) ==
  /\ phase' = c.phase
  /\ idx' = c.idx
  /\ stack' = c.stack

\* a scan step ends; the scan phase ends with the floor of totalBytes
EndScanStep(stk, total) ==
  /\ SetControl(AfterScan(stk))
  /\ totalBytes' = IF AfterScan(stk).phase = "exec" THEN FloorTotal(total)
                   ELSE total
  /\ UNCHANGED <<items, operation, xdev, fs, processedBytes, processedFiles,
                 events, result, fs0, opItem, threw, renameFailed, rewritten>>

\* variant: an error ends the scan of the entries still to visit
OnScanErrorGivesUp(stk) == <<>>

\* catch {} of scan: the call returns and its caller goes on
OnScanError(stk) == stk

\* scan: const stats = await fs.stat(p)
ScanStat ==
  /\ phase = "scan" /\ stack # <<>> /\ Top.op = "scan"
  /\ LET n == Node(fs, Top.src)
     IN CASE n.k = "none" ->
               /\ EndScanStep(OnScanError(Rest), totalBytes)
               /\ UNCHANGED <<totalFiles, itemSizes>>
          [] n.k \in {"dir", "locked"} ->
               /\ EndScanStep(<<[Top EXCEPT !.op = "scanDir"]>> \o Rest,
                              totalBytes)
               /\ UNCHANGED <<totalFiles, itemSizes>>
          [] n.k = "file" ->
               /\ EndScanStep(Rest, totalBytes + n.size)
               /\ totalFiles' = totalFiles + 1
               /\ itemSizes' = [itemSizes EXCEPT ![Top.dest] = @ + n.size]
  /\ UNCHANGED offXfer

\* scan: const children = await fs.readdir(p), then the loop over them
ScanReaddir ==
  /\ phase = "scan" /\ stack # <<>> /\ Top.op = "scanDir"
  /\ IF Node(fs, Top.src).k = "locked"
     THEN EndScanStep(OnScanError(Rest), totalBytes)
     ELSE EndScanStep(ChildFrames("scan", fs, Top.src, Top.dest, Top.item)
                        \o Rest,
                      totalBytes)
  /\ UNCHANGED <<totalFiles, itemSizes>>
  /\ UNCHANGED offXfer


\* an execute step returns normally and leaves the calls stk
EndExecStep(stk) ==
  /\ SetControl(AfterExec(stk))
  /\ result' = AfterExec(stk).result
  /\ opItem' = Top.item
  /\ UNCHANGED <<items, operation, xdev, totalBytes, totalFiles, itemSizes,
                 fs0, threw, rewritten>>

\* an execute step throws: the error reaches the catch around the loop
ThrowStep ==
  /\ SetControl(OnError(idx))
  /\ result' = OnError(idx).result
  /\ opItem' = Top.item
  /\ threw' = Top.item
  /\ UNCHANGED <<items, operation, xdev, fs, totalBytes, totalFiles,
                 itemSizes, processedBytes, processedFiles, events, fs0,
                 renameFailed, rewritten>>

\* reportProgress after processedBytes became pb
ReportProgress(pb) == events' = Append(events, Percent(pb, totalBytes))

\* copyRecursive: const stats = await fs.stat(src)
CopyStat ==
  /\ phase = "exec" /\ stack # <<>> /\ Top.op = "copy"
  /\ LET n == Node(fs, Top.src)
     IN CASE n.k = "none" -> ThrowStep
          [] n.k \in {"dir", "locked"} ->
               /\ EndExecStep(<<[Top EXCEPT !.op = "mkdir"]>> \o Rest)
               /\ UNCHANGED <<fs, processedBytes, processedFiles, events,
                              renameFailed>>
          [] n.k = "file" ->
               /\ EndExecStep(<<[Top EXCEPT !.op = "copyFile",
                                            !.size = n.size]>> \o Rest)
               /\ UNCHANGED <<fs, processedBytes, processedFiles, events,
                              renameFailed>>
  /\ UNCHANGED offXfer

\* copyRecursive: await fs.mkdir(dest, { recursive: true })
CopyMkdir ==
  /\ phase = "exec" /\ stack # <<>> /\ Top.op = "mkdir"
  /\ IF MkdirOk(fs, Top.dest)
     THEN /\ fs' = Mkdir(fs, Top.dest)
          /\ EndExecStep(<<[Top EXCEPT !.op = "readdir"]>> \o Rest)
          /\ UNCHANGED <<processedBytes, processedFiles, events, renameFailed>>
     ELSE ThrowStep
  /\ UNCHANGED offXfer

\* copyRecursive: const children = await fs.readdir(src), then the loop
CopyReaddir ==
  /\ phase = "exec" /\ stack # <<>> /\ Top.op = "readdir"
  /\ IF Node(fs, Top.src).k = "dir"
     THEN /\ EndExecStep(ChildFrames("copy", fs, Top.src, Top.dest, Top.item)
                         \o Rest)
          /\ UNCHANGED <<fs, processedBytes, processedFiles, events,
                         renameFailed>>
     ELSE ThrowStep
  /\ UNCHANGED offXfer

\* copyRecursive: await fs.copyFile(src, dest), then the accounting
CopyFileStep ==
  /\ phase = "exec" /\ stack # <<>> /\ Top.op = "copyFile"
  /\ IF CopyFileOk(fs, Top.src, Top.dest)
     THEN /\ fs' = CopyFile(fs, Top.src, Top.dest)
          /\ processedBytes' = Credit(processedBytes, Top.size)
          /\ processedFiles' = processedFiles + 1
          /\ ReportProgress(processedBytes')
          /\ EndExecStep(Rest)
          /\ UNCHANGED renameFailed
     ELSE ThrowStep
  /\ UNCHANGED offXfer

\* variant: the source is deleted before it is copied
FallbackDeletesFirst(top) ==
  <<[top EXCEPT !.op = "rm"], [top EXCEPT !.op = "copy"]>>

\* the catch of the rename: copyRecursive(item.source, item.dest), then
\* fs.rm(item.source, ...)
Fallback(top) == <<[top EXCEPT !.op = "copy"], [top EXCEPT !.op = "rm"]>>

\* move: await fs.rename(item.source, item.dest), or the fallback
RenameStep ==
  /\ phase = "exec" /\ stack # <<>> /\ Top.op = "rename"
  /\ IF RenameOk(fs, Top.src, Top.dest, xdev)
     THEN /\ fs' = Rename(fs, Top.src, Top.dest)
          /\ processedBytes' = Credit(processedBytes, itemSizes[Top.src])
          /\ ReportProgress(processedBytes')
          /\ EndExecStep(Rest)
          /\ UNCHANGED <<processedFiles, renameFailed>>
     ELSE /\ renameFailed' = TRUE
          /\ EndExecStep(Fallback(Top) \o Rest)
          /\ UNCHANGED <<fs, processedBytes, processedFiles, events>>
  /\ UNCHANGED offXfer

\* move fallback: await fs.rm(item.source, { recursive: true, force: true })
RmStep ==
  /\ phase = "exec" /\ stack # <<>> /\ Top.op = "rm"
  /\ fs' = Rm(fs, Top.src)
  /\ EndExecStep(Rest)
  /\ UNCHANGED <<processedBytes, processedFiles, events, renameFailed>>
  /\ UNCHANGED offXfer

\* another process rewrites the source file p with s bytes, once, while the
\* execute phase runs
EnvWrite(p, s) ==
  /\ phase = "exec"
  /\ ~rewritten
  /\ \E i \in 1..Len(items) : IsPrefix(items[i].source, p)
  /\ fs[p].k = "file" /\ fs[p].size # s
  /\ fs' = [fs EXCEPT ![p] = FileNode(s, <<"w">>)]
  /\ rewritten' = TRUE
  /\ UNCHANGED <<items, operation, xdev, phase, idx, stack, totalBytes,
                 processedBytes, totalFiles, processedFiles, itemSizes,
                 events, result, fs0, opItem, threw, renameFailed>>
  /\ UNCHANGED offXfer

(***************************************************************************)
(* The handler of "move-item" and copyDirectory                            *)
(***************************************************************************)
\* the steps of the handler leave the accounting of the batch engine alone
MoveItemUnchanged ==
  UNCHANGED <<processedBytes, processedFiles, events>>

\* await fs.rename(sourcePath, destPath), or the catch
MoveItemRename ==
  /\ phase = "exec" /\ stack # <<>> /\ Top.op = "mvRename"
  /\ IF RenameOk(fs, Top.src, Top.dest, xdev)
     THEN /\ fs' = Rename(fs, Top.src, Top.dest)
          /\ EndExecStep(Rest)
          /\ UNCHANGED renameFailed
     ELSE /\ renameFailed' = TRUE
          /\ EndExecStep(<<[Top EXCEPT !.op = "mvStat"]>> \o Rest)
          /\ UNCHANGED fs
  /\ MoveItemUnchanged
  /\ UNCHANGED offXfer

\* copyDirectory then fs.rm for a directory, fs.copyFile then fs.unlink for
\* anything else
MoveItemFallback(top, isDir) ==
  <<[top EXCEPT !.op = IF isDir THEN "cdMkdir" ELSE "cdCopyFile"],
    [top EXCEPT !.op = "mvRm"]>>

\* const stats = await fs.stat(sourcePath); if (stats.isDirectory()) ...
MoveItemStat ==
  /\ phase = "exec" /\ stack # <<>> /\ Top.op = "mvStat"
  /\ LET n == Node(fs, Top.src)
     IN IF n.k = "none" THEN ThrowStep
        ELSE /\ EndExecStep(MoveItemFallback(Top, n.k \in {"dir", "locked"})
                              \o Rest)
             /\ UNCHANGED <<fs, renameFailed>>
             /\ MoveItemUnchanged
  /\ UNCHANGED offXfer

\* copyDirectory: await fs.mkdir(destination, { recursive: true })
CopyDirectoryMkdir ==
  /\ phase = "exec" /\ stack # <<>> /\ Top.op = "cdMkdir"
  /\ IF MkdirOk(fs, Top.dest)
     THEN /\ fs' = Mkdir(fs, Top.dest)
          /\ EndExecStep(<<[Top EXCEPT !.op = "cdReaddir"]>> \o Rest)
          /\ UNCHANGED renameFailed
          /\ MoveItemUnchanged
     ELSE ThrowStep
  /\ UNCHANGED offXfer

\* the calls of the loop of copyDirectory: item.isDirectory() as readdir
\* reported it
DirentFrames(f, src, dest, item) ==
  LET names == Readdir(f, src)
  IN [i \in 1..Len(names) |->
        Frame(IF Node(f, Join(src, names[i])).k \in {"dir", "locked"}
              THEN "cdMkdir" ELSE "cdCopyFile",
              Join(src, names[i]), Join(dest, names[i]), 0, item)]

\* copyDirectory: const items = await fs.readdir(source, ...), then the loop
CopyDirectoryReaddir ==
  /\ phase = "exec" /\ stack # <<>> /\ Top.op = "cdReaddir"
  /\ IF Node(fs, Top.src).k = "dir"
     THEN /\ EndExecStep(DirentFrames(fs, Top.src, Top.dest, Top.item)
                          \o Rest)
          /\ UNCHANGED <<fs, renameFailed>>
          /\ MoveItemUnchanged
     ELSE ThrowStep
  /\ UNCHANGED offXfer

\* await fs.copyFile(srcPath, destPath)
CopyDirectoryCopyFile ==
  /\ phase = "exec" /\ stack # <<>> /\ Top.op = "cdCopyFile"
  /\ IF CopyFileOk(fs, Top.src, Top.dest)
     THEN /\ fs' = CopyFile(fs, Top.src, Top.dest)
          /\ EndExecStep(Rest)
          /\ UNCHANGED renameFailed
          /\ MoveItemUnchanged
     ELSE ThrowStep
  /\ UNCHANGED offXfer

\* await fs.rm(sourcePath, { recursive: true }) or fs.unlink(sourcePath)
MoveItemRm ==
  /\ phase = "exec" /\ stack # <<>> /\ Top.op = "mvRm"
  /\ IF Node(fs, Top.src).k = "none" THEN ThrowStep
     ELSE /\ fs' = Rm(fs, Top.src)
          /\ EndExecStep(Rest)
          /\ UNCHANGED renameFailed
          /\ MoveItemUnchanged
  /\ UNCHANGED offXfer

(***************************************************************************)
(* Transfer engine: the batches and filesystems explored                   *)
(***************************************************************************)
Item(s, d) == [source |-> s, dest |-> d]

\* the tree /a onto /b, and entries of /a to places in /b
ItemChoices ==
  { Item(<<"a">>, <<"b">>),
    Item(<<"a", "a">>, <<"b", "a">>),
    Item(<<"a", "b">>, <<"b", "b">>),
    Item(<<"a", "b">>, <<"b", "a">>) }

Batches == UNION {[1..n -> ItemChoices] : n \in 1..MaxItems}

\* what an entry of a directory may be at the start
Entries(p) == {NoNode, DirNode} \cup {FileNode(s, p) : s \in Sizes}
Leaves(p) == {NoNode} \cup {FileNode(s, p) : s \in Sizes}

\* /a is absent, a file, or a directory of up to two entries (the first a
\* file or an empty directory, the second a file); /b is absent or an empty
\* directory; the content of a file is named after its first path
MakeFs(na, nb, naa, nab) ==
  [p \in Paths |->
     IF p = <<"a">> THEN na
     ELSE IF p = <<"b">> THEN nb
     ELSE IF p = <<"a", "a">> THEN naa
     ELSE IF p = <<"a", "b">> THEN nab
     ELSE NoNode]

UnderA(na) ==
  IF na = DirNode
  THEN Entries(<<"a", "a">>) \X Leaves(<<"a", "b">>)
  ELSE {<<NoNode, NoNode>>}

InitialFs ==
  UNION { { MakeFs(na, nb, c[1], c[2]) : c \in UnderA(na) } :
            na \in Entries(<<"a">>), nb \in {NoNode, DirNode} }

\* /a is a directory with the unreadable directory /a/a, which holds a
\* file, and the entry /a/b
LockedFs ==
  { [MakeFs(DirNode, nb, LockedNode, nab)
       EXCEPT ![<<"a", "a", "a">>] = FileNode(s, <<"a", "a", "a">>)] :
      nb \in {NoNode, DirNode}, nab \in Leaves(<<"a", "b">>), s \in Sizes }

IdleXfer ==
  /\ items = <<>> /\ operation = "copy" /\ xdev = FALSE
  /\ fs = [p \in Paths |-> NoNode] /\ fs0 = fs
  /\ phase = "done" /\ idx = 0 /\ stack = <<>>
  /\ totalBytes = 0 /\ processedBytes = 0
  /\ totalFiles = 0 /\ processedFiles = 0
  /\ itemSizes = [p \in Paths |-> 0]
  /\ events = <<>> /\ result = "none"
  /\ opItem = 0 /\ threw = 0 /\ renameFailed = FALSE /\ rewritten = FALSE

\* the handler has been called with a batch and runs its first scan
InitXfer ==
  /\ InitSched
  /\ items \in Batches
  /\ operation \in {"copy", "move"}
  /\ xdev \in BOOLEAN
  /\ operation = "copy" => xdev = FALSE
  /\ fs \in InitialFs
  /\ fs0 = fs
  /\ phase = "scan" /\ idx = 1 /\ stack = <<ScanFrame(1)>>
  /\ totalBytes = 0 /\ processedBytes = 0
  /\ totalFiles = 0 /\ processedFiles = 0
  /\ itemSizes = [p \in Paths |-> 0]
  /\ events = <<>> /\ result = "none"
  /\ opItem = 0 /\ threw = 0 /\ renameFailed = FALSE /\ rewritten = FALSE

\* the handler has been called on a tree with an unreadable directory
InitLocked ==
  /\ InitSched
  /\ items \in Batches
  /\ operation \in {"copy", "move"}
  /\ xdev \in BOOLEAN
  /\ operation = "copy" => xdev = FALSE
  /\ fs \in LockedFs
  /\ fs0 = fs
  /\ phase = "scan" /\ idx = 1 /\ stack = <<ScanFrame(1)>>
  /\ totalBytes = 0 /\ processedBytes = 0
  /\ totalFiles = 0 /\ processedFiles = 0
  /\ itemSizes = [p \in Paths |-> 0]
  /\ events = <<>> /\ result = "none"
  /\ opItem = 0 /\ threw = 0 /\ renameFailed = FALSE /\ rewritten = FALSE

\* /a/a is a directory that holds the directory /a/a/a and its file, or a
\* file of its own
DeepFs ==
  { [MakeFs(DirNode, nb, DirNode, nab)
       EXCEPT ![<<"a", "a", "a">>] = DirNode,
              ![<<"a", "a", "a", "b">>] = FileNode(s, <<"a", "a", "a", "b">>)] :
      nb \in {NoNode, DirNode}, nab \in Leaves(<<"a", "b">>), s \in Sizes }
    \cup
  { [MakeFs(DirNode, nb, DirNode, nab)
       EXCEPT ![<<"a", "a", "b">>] = FileNode(s, <<"a", "a", "b">>)] :
      nb \in {NoNode, DirNode}, nab \in Leaves(<<"a", "b">>), s \in Sizes }

\* the moves explored: those of ItemChoices, a folder moved to the place of
\* the folder that holds it (as a drop on the grandparent asks when the two
\* folders have the same name), and a folder moved into itself
MoveChoices ==
  ItemChoices \cup { Item(<<"a", "a">>, <<"a">>), Item(<<"a">>, <<"a", "b">>) }

\* "batch-file-operation" is called with a Move batch, or "move-item" with a
\* source and a destination
InitMove ==
  /\ InitSched
  /\ xdev \in BOOLEAN
  /\ fs \in InitialFs \cup DeepFs
  /\ fs0 = fs
  /\ \/ /\ operation = "move"
        /\ \E n \in 1..MaxItems : items \in [1..n -> MoveChoices]
        /\ phase = "scan" /\ idx = 1 /\ stack = <<ScanFrame(1)>>
     \/ /\ operation = "moveItem"
        /\ items \in [1..1 -> MoveChoices]
        /\ phase = "exec" /\ idx = 1
        /\ stack = <<Frame("mvRename", items[1].source, items[1].dest, 0, 1)>>
  /\ totalBytes = 0 /\ processedBytes = 0
  /\ totalFiles = 0 /\ processedFiles = 0
  /\ itemSizes = [p \in Paths |-> 0]
  /\ events = <<>> /\ result = "none"
  /\ opItem = 0 /\ threw = 0 /\ renameFailed = FALSE /\ rewritten = FALSE

NextMoveItem ==
  \/ MoveItemRename
  \/ MoveItemStat
  \/ CopyDirectoryMkdir
  \/ CopyDirectoryReaddir
  \/ CopyDirectoryCopyFile
  \/ MoveItemRm

NextXfer ==
  \/ ScanStat
  \/ ScanReaddir
  \/ CopyStat
  \/ CopyMkdir
  \/ CopyReaddir
  \/ CopyFileStep
  \/ RenameStep
  \/ RmStep
  \/ \E p \in Paths : \E s \in Sizes : EnvWrite(p, s)

(***************************************************************************)
(* Callers of the transfer engine: paste and handleFileDrop                *)
(***************************************************************************)
\* a path string: its segments and whether it ends with a separator
PathString(segs, trail) == [segs |-> segs, trail |-> trail]

\* the paths of the rows of a listing: a directory and its entries
RowPaths == PathsOfLen(1) \cup PathsOfLen(2)

\* the sources of one gesture: the paths of the selected rows
SourceLists ==
  UNION {[1..n -> {PathString(q, FALSE) : q \in RowPaths}] : n \in 1..MaxDrag}

\* the directory receiving the items: the root, a row or a typed path
TargetDirs ==
  {PathString(<<>>, FALSE)} \cup
  {PathString(q, t) : q \in RowPaths, t \in BOOLEAN}

\* normalizePathForCompare: trailing separators removed
NormalizePathForCompare(p) == PathString(p.segs, FALSE)

\* path.parse(p).base
Base(p) == p.segs[Len(p.segs)]

\* path.join(dir, base)
JoinPaths(dir, base) == PathString(Append(dir.segs, base), FALSE)

\* cleanSource.substring(0, lastSep), "/" when lastSep is 0
ParentString(p) == PathString(Parent(p.segs), FALSE)

\* d.startsWith(s + "/")
StartsWithSep(d, s) == Len(d.segs) > Len(s.segs) /\ IsPrefix(s.segs, d.segs)

\* the four skip tests of handleFileDrop
SkipDrop(sourcePath, dir) ==
  LET destPath == JoinPaths(dir, Base(sourcePath))
      normSourcePath == NormalizePathForCompare(sourcePath)
      normDestPath == NormalizePathForCompare(destPath)
  IN \/ normSourcePath = normDestPath
     \/ NormalizePathForCompare(ParentString(sourcePath))
          = NormalizePathForCompare(dir)
     \/ StartsWithSep(normDestPath, normSourcePath)
     \/ NormalizePathForCompare(dir) = normSourcePath

IdleCall ==
  /\ caller = "idle" /\ sourcePaths = <<>>
  /\ targetDir = PathString(<<>>, FALSE)
  /\ srcIdx = 1 /\ batchItems = <<>> /\ sent = FALSE

\* paste() or handleFileDrop() is called with a non-empty list of sources
StartCall(c, srcs, dir) ==
  /\ caller = "idle"
  /\ caller' = c /\ sourcePaths' = srcs /\ targetDir' = dir
  /\ srcIdx' = 1 /\ batchItems' = <<>> /\ sent' = FALSE
  /\ UNCHANGED offCall

\* one iteration of the loop of paste: every source is pushed
PasteItem ==
  /\ caller = "paste" /\ srcIdx <= Len(sourcePaths)
  /\ LET sourcePath == sourcePaths[srcIdx]
     IN batchItems' = Append(batchItems,
          [source |-> sourcePath,
           dest |-> JoinPaths(targetDir, Base(sourcePath))])
  /\ srcIdx' = srcIdx + 1
  /\ UNCHANGED <<caller, sourcePaths, targetDir, sent>>
  /\ UNCHANGED offCall

\* one iteration of the loop of handleFileDrop: skip or push
DropItem ==
  /\ caller = "drop" /\ srcIdx <= Len(sourcePaths)
  /\ LET sourcePath == sourcePaths[srcIdx]
     IN batchItems' =
          IF SkipDrop(sourcePath, targetDir) THEN batchItems
          ELSE Append(batchItems,
                 [source |-> sourcePath,
                  dest |-> JoinPaths(targetDir, Base(sourcePath))])
  /\ srcIdx' = srcIdx + 1
  /\ UNCHANGED <<caller, sourcePaths, targetDir, sent>>
  /\ UNCHANGED offCall

\* after the loop: paste always submits, handleFileDrop a non-empty batch
Submit ==
  /\ caller # "idle" /\ srcIdx > Len(sourcePaths)
  /\ sent' = (caller = "paste" \/ Len(batchItems) > 0)
  /\ caller' = "idle"
  /\ UNCHANGED <<sourcePaths, targetDir, srcIdx, batchItems>>
  /\ UNCHANGED offCall

NextCall ==
  \/ \E c \in {"paste", "drop"} : \E srcs \in SourceLists :
       \E dir \in TargetDirs : StartCall(c, srcs, dir)
  \/ PasteItem
  \/ DropItem
  \/ Submit

(***************************************************************************)
(* Size cache: insertion order and trimming                                *)
(***************************************************************************)
\* variant: the newest keys are deleted
TrimCacheNewest(keys, maxEntries) ==
  IF Len(keys) <= maxEntries THEN keys ELSE SubSeq(keys, 1, maxEntries)

\* trimCache: the first cache.size - maxEntries keys are deleted
TrimCache(keys, maxEntries) ==
  IF Len(keys) <= maxEntries THEN keys
  ELSE SubSeq(keys, Len(keys) - maxEntries + 1, Len(keys))

HasKey(keys, k) == \E i \in 1..Len(keys) : keys[i] = k

\* Map.set: a new key goes last, a known key keeps its place
MapSet(keys, k) == IF HasKey(keys, k) THEN keys ELSE Append(keys, k)

\* paths are numbered in the order of their first insertion; the cache is
\* filled up to MaxExtra entries above the ceiling
CacheKeyLimit == MAX_FOLDER_SIZE_CACHE_ENTRIES + MaxExtra

\* the keys a computation may store: the oldest entry again or a new path
KeyChoices(keys) ==
  IF keys = <<>> THEN {1} ELSE {Head(keys), keys[Len(keys)] + 1}

InitCache == cacheKeys = <<>> /\ saveTimer = FALSE /\ lastSet = 0

\* a computation succeeds: folderSizeCache.set(k, ...), saveFolderSizeCache()
CacheSet(k) ==
  /\ k <= CacheKeyLimit
  /\ cacheKeys' = MapSet(cacheKeys, k)
  /\ saveTimer' = TRUE
  /\ lastSet' = k
  /\ UNCHANGED offCache

\* the timeout of saveFolderSizeCache fires: trim, then persist
SaveFires ==
  /\ saveTimer
  /\ cacheKeys' = TrimCache(cacheKeys, MAX_FOLDER_SIZE_CACHE_ENTRIES)
  /\ saveTimer' = FALSE
  /\ UNCHANGED lastSet
  /\ UNCHANGED offCache

NextCache ==
  \/ \E k \in KeyChoices(cacheKeys) : CacheSet(k)
  \/ SaveFires

(***************************************************************************)
(* Directory lister: "get-directory-contents" and handleArchiveBrowsing    *)
(***************************************************************************)
\* a name: a letter and its case; localeCompare with sensitivity "base"
\* compares the letters only
Letters == 1..2
EntryNames == [c : Letters, up : BOOLEAN]
\* the name of every segment of the path asked for
SegName == [c |-> 1, up |-> FALSE]
\* the segments "." and ".."
DotSeg == [c |-> 0, up |-> FALSE]
DotDotSeg == [c |-> 0, up |-> TRUE]

\* what lies at a prefix of the path: nothing, a regular file, a directory,
\* a directory that cannot be read, or something else (socket, device);
\* the prefixes before k are directories, prefix k is of kind t, the longer
\* ones do not exist
KindsOf(n, k, t) ==
  [i \in 0..n |-> IF i < k THEN "dir" ELSE IF i = k THEN t ELSE "none"]

PathKinds(n) ==
  {KindsOf(n, k, t) : k \in 1..n, t \in {"none", "file", "dir", "other"}}
    \cup {KindsOf(n, n, "locked"), KindsOf(n, 0, "none")}

\* a child as fs.readdir reports it, with what fs.stat and fs.readlink will
\* do on it: a symbolic link is neither a directory nor a file for readdir
Child(name, isDir, isLink, statOk, readlinkOk) ==
  [name |-> name, isDirectory |-> isDir, isSymlink |-> isLink,
   statOk |-> statOk, readlinkOk |-> readlinkOk]

\* a directory or a file that can be stat'ed
Dirent(name, isDir) == Child(name, isDir, FALSE, TRUE, TRUE)

\* every child: directories and files, links with a target, dangling links
\* (stat follows the link and fails), links that cannot be read after the
\* stat succeeded, and directories and files that cannot be stat'ed
Dirents ==
  {Dirent(nm, d) : nm \in EntryNames, d \in BOOLEAN}
    \cup {Child(nm, d, FALSE, FALSE, TRUE) : nm \in EntryNames, d \in BOOLEAN}
    \cup {Child(nm, FALSE, TRUE, so, ro) :
             nm \in EntryNames, so \in BOOLEAN, ro \in BOOLEAN}

\* sequences of at most n elements of S
RECURSIVE SeqsUpTo(_, _)
SeqsUpTo(S, n) ==
  IF n = 0 THEN {<<>>}
  ELSE LET shorter == SeqsUpTo(S, n - 1)
       IN shorter \cup
          {Append(sq, e) : sq \in {x \in shorter : Len(x) = n - 1},
                           e \in S}

NamesDistinct(sq) ==
  \A i, j \in 1..Len(sq) : i # j => sq[i].name # sq[j].name

\* the results of fs.readdir: the names of a directory are distinct
ReaddirResults == {sq \in SeqsUpTo(Dirents, MaxRows) : NamesDistinct(sq)}

\* a block of the 7z listing: Path = ..., Attributes = D... or not
Row(path, dAttr) == [path |-> path, dAttr |-> dAttr]

\* the entry paths of the archive, around the internal path ip: entries and
\* grandchildren below it, the folder ip itself and an entry outside it
RowPathsAround(ip) ==
  {ip \o <<nm>> : nm \in EntryNames}
    \cup {ip \o <<nm, SegName>> : nm \in EntryNames}
    \cup {ip, <<[c |-> 2, up |-> TRUE]>>}

ToolRows(ip) ==
  SeqsUpTo({Row(q, d) : q \in RowPathsAround(ip) \ {<<>>}, d \in BOOLEAN},
           MaxRows)

\* a.name.localeCompare(b.name, undefined, {sensitivity: "base"})
LocaleCompare(a, b) == IF a.c < b.c THEN -1 ELSE IF a.c > b.c THEN 1 ELSE 0

\* variant: the comparator without the directories-first tests
CompareEntriesByNameOnly(a, b) == LocaleCompare(a.name, b.name)

\* the comparator of contents.sort
CompareEntries(a, b) ==
  IF a.isDirectory /\ ~b.isDirectory THEN -1
  ELSE IF ~a.isDirectory /\ b.isDirectory THEN 1
  ELSE LocaleCompare(a.name, b.name)

\* e goes before the first element it compares below (a stable sort)
RECURSIVE InsertSorted(_, _)
InsertSorted(sorted, e) ==
  IF sorted = <<>> THEN <<e>>
  ELSE IF CompareEntries(e, Head(sorted)) < 0 THEN <<e>> \o sorted
  ELSE <<Head(sorted)>> \o InsertSorted(Tail(sorted), e)

\* contents.sort(...)
RECURSIVE SortContents(_)
SortContents(sq) ==
  IF sq = <<>> THEN <<>>
  ELSE InsertSorted(SortContents(SubSeq(sq, 1, Len(sq) - 1)), sq[Len(sq)])

\* the entry of a child of a real directory: stats stays null when fs.stat
\* throws, linkTarget stays null when fs.stat or fs.readlink throws; a file
\* that can be stat'ed has size 1 here
RealEntry(item) ==
  [name |-> item.name, isDirectory |-> item.isDirectory,
   isSymlink |-> item.isSymlink,
   linkTarget |-> IF item.statOk /\ item.isSymlink /\ item.readlinkOk
                  THEN "target" ELSE "null",
   size |-> IF item.statOk THEN 1 ELSE 0,
   modified |-> IF item.statOk THEN "mtime" ELSE "null",
   created |-> IF item.statOk THEN "birthtime" ELSE "null"]

\* variant: a child that cannot be stat'ed is left out
RealContentsReadableOnly(children) ==
  LET keep == {i \in 1..Len(children) : children[i].statOk}
      RECURSIVE Pick(_)
      Pick(i) == IF i > Len(children) THEN <<>>
                 ELSE IF i \in keep THEN <<RealEntry(children[i])>> \o Pick(i + 1)
                 ELSE Pick(i + 1)
  IN Pick(1)

\* Promise.all(children.map(...)): one entry for each child, in readdir order
RealContents(children) == [i \in 1..Len(children) |-> RealEntry(children[i])]

\* an entry of an archive listing
Entry(name, isDir) == [name |-> name, isDirectory |-> isDir]

\* entryPath.startsWith(normalizedInternal + "/")
StartsWithInternal(entryPath, ip) ==
  Len(entryPath) > Len(ip) /\ SubSeq(entryPath, 1, Len(ip)) = ip

\* variant: the seen set is never consulted
SeenNameNever(contents, name) == FALSE

\* seen.has(name)
SeenName(contents, name) ==
  \E i \in 1..Len(contents) : contents[i].name = name

\* the loop over the blocks of the listing: filter, first segment, dedupe
RECURSIVE ArchiveContents(_, _, _)
ArchiveContents(rows, ip, contents) ==
  IF rows = <<>> THEN contents
  ELSE LET entry == Head(rows)
           inside == ip = <<>> \/ StartsWithInternal(entry.path, ip)
           relative == SubSeq(entry.path, Len(ip) + 1, Len(entry.path))
           name == relative[1]
           isDir == Len(relative) > 1 \/ entry.dAttr
       IN IF ~inside \/ relative = <<>> \/ SeenName(contents, name)
          THEN ArchiveContents(Tail(rows), ip, contents)
          ELSE ArchiveContents(Tail(rows), ip,
                               Append(contents, Entry(name, isDir)))

NoListing ==
  [status |-> "none", error |-> "", contents |-> <<>>, isArchive |-> FALSE]
Success(contents, isArchive) ==
  [status |-> "success", error |-> "", contents |-> contents,
   isArchive |-> isArchive]
Failure(error) ==
  [status |-> "failure", error |-> error, contents |-> <<>>,
   isArchive |-> FALSE]

IdleList ==
  /\ dirPath = <<>> /\ pathKinds = KindsOf(0, 1, "none")
  /\ dirEntries = <<>> /\ toolOutput = [ok |-> TRUE, rows |-> <<>>]
  /\ lphase = "done" /\ archivePath = 0 /\ internalPath = <<>>
  /\ depth = 0 /\ statCount = 0 /\ listing = NoListing
  /\ previous = NoListing

\* the handler is called with a path of n segments
ListCalled(n) ==
  /\ dirPath = [i \in 1..n |-> SegName]
  /\ pathKinds \in PathKinds(n)
  /\ lphase = "readdir" /\ archivePath = n /\ internalPath = <<>>
  /\ depth = 0 /\ statCount = 0 /\ listing = NoListing
  /\ previous = NoListing

\* the tool outputs around the part of dirPath below its first regular file
InternalOf(kinds, n) ==
  LET k == CHOOSE i \in 0..n : kinds[i] # "dir"
  IN [i \in 1..(n - k) |-> SegName]

\* long paths with one sample of directory entries and of tool output;
\* paths of one or two segments with every directory and every tool output
InitList ==
  \/ /\ \E n \in 1..MaxPathLen : ListCalled(n)
     /\ dirEntries = <<Dirent(SegName, FALSE),
                       Dirent([c |-> 2, up |-> TRUE], TRUE)>>
     /\ \E ok \in BOOLEAN :
          toolOutput = [ok |-> ok, rows |-> <<Row(<<SegName>>, FALSE)>>]
  \/ /\ \E n \in 1..2 : ListCalled(n)
     /\ \/ /\ pathKinds[Len(dirPath)] = "dir"
           /\ dirEntries \in ReaddirResults
           /\ toolOutput = [ok |-> TRUE, rows |-> <<>>]
        \/ /\ \E i \in 1..Len(dirPath) : pathKinds[i] = "file"
           /\ dirEntries = <<>>
           /\ \E rows \in ToolRows(InternalOf(pathKinds, Len(dirPath))) :
                toolOutput = [ok |-> TRUE, rows |-> rows]

\* what fs.stat can report along a path with "." and ".." segments: below a
\* directory, "." and ".." name a directory
KindsAgree(p, kinds) ==
  \A i \in 1..Len(p) :
    (p[i] \in {DotSeg, DotDotSeg} /\ kinds[i - 1] = "dir") => kinds[i] = "dir"

\* the handler is called with a path that was not normalised, as the start
\* path of the command line can be
InitDots ==
  /\ \E n \in 1..MaxDots : dirPath \in [1..n -> {SegName, DotSeg, DotDotSeg}]
  /\ pathKinds \in PathKinds(Len(dirPath))
  /\ pathKinds[0] = "dir" /\ KindsAgree(dirPath, pathKinds)
  /\ lphase = "readdir" /\ archivePath = Len(dirPath) /\ internalPath = <<>>
  /\ depth = 0 /\ statCount = 0 /\ listing = NoListing
  /\ previous = NoListing
  /\ dirEntries = <<Dirent(SegName, FALSE)>>
  /\ \E ok \in BOOLEAN :
       toolOutput = [ok |-> ok, rows |-> <<Row(<<SegName>>, FALSE)>>]

\* a call changes neither its inputs nor the record of the call before it
ListUnchanged ==
  UNCHANGED <<dirPath, pathKinds, dirEntries, toolOutput, previous>>

\* the error code of fs.readdir on the path of n segments, "" on success
ReaddirError(kinds, n) ==
  CASE kinds[n] = "dir" -> ""
    [] kinds[n] = "locked" -> "EACCES"
    [] kinds[n] \in {"file", "other"} -> "ENOTDIR"
    [] OTHER -> IF \E i \in 0..n : kinds[i] \in {"file", "other"}
                THEN "ENOTDIR" ELSE "ENOENT"

\* variant: every error of readdir leads to the archive branch
IsArchiveCandidateAnyError(code) == TRUE

\* error.code === "ENOTDIR" || error.code === "ENOENT"
IsArchiveCandidate(code) == code \in {"ENOTDIR", "ENOENT"}

\* fs.readdir(dirPath): the real listing, the archive branch on ENOTDIR or
\* ENOENT, a failure on any other error
ReaddirStep ==
  /\ lphase = "readdir"
  /\ LET code == ReaddirError(pathKinds, Len(dirPath))
     IN IF code = ""
        THEN /\ listing' =
                  Success(SortContents(RealContents(dirEntries)), FALSE)
             /\ lphase' = "done"
        ELSE IF IsArchiveCandidate(code)
        THEN /\ lphase' = "walk"
             /\ UNCHANGED listing
        ELSE /\ listing' = Failure(code)
             /\ lphase' = "done"
  /\ UNCHANGED <<archivePath, internalPath, depth, statCount>>
  /\ ListUnchanged
  /\ UNCHANGED offList

\* the normalisation path.join applies to a relative path: "." is dropped,
\* ".." removes the segment before it unless there is none or it is ".."
RECURSIVE NormalizeInto(_, _)
NormalizeInto(acc, rest) ==
  IF rest = <<>> THEN acc
  ELSE LET seg == Head(rest)
       IN IF seg = DotSeg THEN NormalizeInto(acc, Tail(rest))
          ELSE IF seg = DotDotSeg /\ acc # <<>> /\ acc[Len(acc)] # DotDotSeg
          THEN NormalizeInto(SubSeq(acc, 1, Len(acc) - 1), Tail(rest))
          ELSE NormalizeInto(Append(acc, seg), Tail(rest))

\* path.join(...): the normalised path, "." when nothing is left
PathNormalize(p) ==
  LET r == NormalizeInto(<<>>, p) IN IF r = <<>> THEN <<DotSeg>> ELSE r

\* variant: the segment is joined after the internal path
PathJoinAppended(base, ip) ==
  IF ip = <<>> THEN <<base>> ELSE PathNormalize(ip \o <<base>>)

\* internalPath ? path.join(base, internalPath) : base
PathJoin(base, ip) ==
  IF ip = <<>> THEN <<base>> ELSE PathNormalize(<<base>> \o ip)

\* variant: the loop condition written with <=
WalkContinuesOffByOne(d) == d <= SafetyLimit

\* while (depth < 20)
WalkContinues(d) == d < SafetyLimit

\* the walk goes on with depth d, or leaves the loop without a file
NextIteration(d) ==
  /\ depth' = d
  /\ IF WalkContinues(d)
     THEN lphase' = "walk" /\ UNCHANGED listing
     ELSE lphase' = "done" /\ listing' = Failure("Path not found")

\* variant: a directory passes for the archive as well
StatsIsFileOrDirectory(kind) == kind \in {"file", "dir", "locked"}

\* stats.isFile()
StatsIsFile(kind) == kind = "file"

\* one iteration of the walk: fs.stat(archivePath)
WalkStat ==
  /\ lphase = "walk"
  /\ statCount' = statCount + 1
  /\ LET kind == pathKinds[archivePath]
     IN CASE StatsIsFile(kind) ->
               /\ lphase' = "tool"
               /\ UNCHANGED <<archivePath, internalPath, depth, listing>>
          [] ~StatsIsFile(kind) /\ kind \in {"dir", "locked"} ->
               /\ lphase' = "done"
               /\ listing' = Failure("Not a directory")
               /\ UNCHANGED <<archivePath, internalPath, depth>>
          [] kind = "other" ->
               /\ NextIteration(depth + 1)
               /\ UNCHANGED <<archivePath, internalPath>>
          [] kind = "none" ->
               IF archivePath = 0
               THEN /\ lphase' = "done"
                    /\ listing' = Failure("Path not found")
                    /\ UNCHANGED <<archivePath, internalPath, depth>>
               ELSE /\ internalPath' = PathJoin(dirPath[archivePath], internalPath)
                    /\ archivePath' = archivePath - 1
                    /\ NextIteration(depth + 1)
  /\ ListUnchanged
  /\ UNCHANGED offList

\* the 7z listing returns: parse, filter, dedupe, sort
ToolReturns ==
  /\ lphase = "tool"
  /\ lphase' = "done"
  /\ listing' =
       IF toolOutput.ok
       THEN Success(SortContents(
                      ArchiveContents(toolOutput.rows, internalPath, <<>>)),
                    TRUE)
       ELSE Failure("Failed to read archive (7z required)")
  /\ UNCHANGED <<archivePath, internalPath, depth, statCount>>
  /\ ListUnchanged
  /\ UNCHANGED offList

\* variant: the locals of the walk survive from one call to the next
WalkLocalsKept(n) ==
  [archivePath |-> n, internalPath |-> internalPath, depth |-> depth]

\* let archivePath = fullPath; let internalPath = ""; let depth = 0
WalkLocals(n) == [archivePath |-> n, internalPath |-> <<>>, depth |-> 0]

\* the handler is called a second time with the same path, the filesystem
\* and the tool output being what they were
ListAgain ==
  /\ lphase = "done" /\ listing # NoListing /\ previous = NoListing
  /\ previous' = listing
  /\ listing' = NoListing
  /\ lphase' = "readdir"
  /\ archivePath' = WalkLocals(Len(dirPath)).archivePath
  /\ internalPath' = WalkLocals(Len(dirPath)).internalPath
  /\ depth' = WalkLocals(Len(dirPath)).depth
  /\ statCount' = 0
  /\ UNCHANGED <<dirPath, pathKinds, dirEntries, toolOutput>>
  /\ UNCHANGED offList

NextList ==
  \/ ReaddirStep
  \/ WalkStat
  \/ ToolReturns
  \/ ListAgain

(***************************************************************************)
(* Navigation history: navigateTo, finishNavigation, goBack, goForward     *)
(***************************************************************************)
HistPaths == {"p", "q"}

\* let history = []; let historyIndex = -1; the start path is about to be
\* shown
InitNav ==
  /\ history = <<>> /\ historyIndex = -1
  /\ currentPath = "p" /\ navPending = <<>>

Call(kind, path) == [kind |-> kind, path |-> path]

RemoveAt(sq, i) == SubSeq(sq, 1, i - 1) \o SubSeq(sq, i + 1, Len(sq))

\* the "Update history" part of finishNavigation, cur being currentPath
FinishNavigation(h, i, cur) ==
  IF i = -1 \/ h[i + 1] # cur
  THEN LET pushed == Append(SubSeq(h, 1, i + 1), cur)
           overflow == Len(pushed) - MAX_HISTORY_LENGTH
       IN IF Len(pushed) > MAX_HISTORY_LENGTH
          THEN [history |-> SubSeq(pushed, overflow + 1, Len(pushed)),
                historyIndex |-> (Len(pushed) - 1) - overflow]
          ELSE [history |-> pushed, historyIndex |-> Len(pushed) - 1]
  ELSE [history |-> h, historyIndex |-> i]

\* navigateTo(path) up to its await
NavigateToCall(path) ==
  /\ Len(navPending) < MaxPending
  /\ navPending' = Append(navPending, Call("navigateTo", path))
  /\ UNCHANGED <<history, historyIndex, currentPath>>
  /\ UNCHANGED offNav

\* the listing asked for by navigateTo returns: on success currentPath is
\* set and finishNavigation updates the history, on failure an error shows
NavigateToReturns(i, ok) ==
  /\ i \in 1..Len(navPending) /\ navPending[i].kind = "navigateTo"
  /\ navPending' = RemoveAt(navPending, i)
  /\ IF ok
     THEN /\ currentPath' = navPending[i].path
          /\ history' =
               FinishNavigation(history, historyIndex, currentPath').history
          /\ historyIndex' =
               FinishNavigation(history, historyIndex,
                                currentPath').historyIndex
     ELSE UNCHANGED <<history, historyIndex, currentPath>>
  /\ UNCHANGED offNav

\* goBack up to its await: historyIndex--, then the listing is asked for
GoBackCall ==
  /\ Len(navPending) < MaxPending
  /\ historyIndex > 0
  /\ historyIndex' = historyIndex - 1
  /\ navPending' = Append(navPending, Call("goBack", history[historyIndex' + 1]))
  /\ UNCHANGED <<history, currentPath>>
  /\ UNCHANGED offNav

\* goForward up to its await: historyIndex++, then the listing is asked for
GoForwardCall ==
  /\ Len(navPending) < MaxPending
  /\ historyIndex < Len(history) - 1
  /\ historyIndex' = historyIndex + 1
  /\ navPending' =
       Append(navPending, Call("goForward", history[historyIndex' + 1]))
  /\ UNCHANGED <<history, currentPath>>
  /\ UNCHANGED offNav

\* the listing asked for by goBack or goForward returns: on success
\* currentPath is set, on failure nothing is done
HistoryReturns(i, ok) ==
  /\ i \in 1..Len(navPending)
  /\ navPending[i].kind \in {"goBack", "goForward"}
  /\ navPending' = RemoveAt(navPending, i)
  /\ currentPath' = IF ok THEN navPending[i].path ELSE currentPath
  /\ UNCHANGED <<history, historyIndex>>
  /\ UNCHANGED offNav

NextNav ==
  \/ \E path \in HistPaths : NavigateToCall(path)
  \/ \E i \in 1..MaxPending : \E ok \in BOOLEAN : NavigateToReturns(i, ok)
  \/ GoBackCall
  \/ GoForwardCall
  \/ \E i \in 1..MaxPending : \E ok \in BOOLEAN : HistoryReturns(i, ok)

(***************************************************************************)
(* Specifications                                                          *)
(***************************************************************************)
Idle == InitSched /\ IdleXfer /\ IdleCall /\ InitCache /\ IdleList
  /\ InitNav

XferInit == InitXfer /\ IdleCall /\ InitCache /\ IdleList
  /\ InitNav

SpecXfer == XferInit /\ [][NextXfer]_vars

\* the transfer engine on trees with an unreadable directory
ScanInit == InitLocked /\ IdleCall /\ InitCache /\ IdleList
  /\ InitNav

SpecScan == ScanInit /\ [][NextXfer]_vars

MoveInit == InitMove /\ IdleCall /\ InitCache /\ IdleList
  /\ InitNav
NextMove == NextXfer \/ NextMoveItem
SpecMove == MoveInit /\ [][NextMove]_vars
ListInit == InitSched /\ IdleXfer /\ IdleCall /\ InitCache /\ InitList
  /\ InitNav

SpecList == ListInit /\ [][NextList]_vars
DotsInit == InitSched /\ IdleXfer /\ IdleCall /\ InitCache /\ InitDots
  /\ InitNav
SpecDots == DotsInit /\ [][NextList]_vars

SchedInit == Idle

SpecSched == SchedInit /\ [][NextSched]_vars

\* the scheduler with the navigations that bypass finishNavigation
NextHist ==
  \/ NextSched
  \/ \E d \in Dirs : \E l \in Listings(d) : HistoryNavigate(d, l)

SpecHist == SchedInit /\ [][NextHist]_vars

\* the scheduler with the clock
NextTtl == NextSched \/ TtlPasses

SpecTtl == SchedInit /\ [][NextTtl]_vars

\* the view sorted by size; every getItemInfo call returns in the end
SortedInit == Idle
SpecSorted ==
  /\ SortedInit /\ [][NextSorted]_vars
  /\ \A p \in Folders : WF_vars(Returns(p))
NavInit == Idle
SpecNav == NavInit /\ [][NextNav]_vars
CallInit == Idle

SpecCache == Idle /\ [][NextCache]_vars

SpecCall == CallInit /\ [][NextCall]_vars


(***************************************************************************)
(* Properties of the folder-size scheduler (checked under SpecSched, C15   *)
(* under SpecTtl, C16 under SpecHist)                                      *)
(***************************************************************************)
RECURSIVE SumCalls(_)
SumCalls(n) == IF n = 0 THEN 0 ELSE calls[n] + SumCalls(n - 1)

InQueue(p) == \E i \in 1..Len(folderSizeQueue) : folderSizeQueue[i] = p

\* C1: at most one getItemInfo call is in flight for any path, whatever the
\* interleaving of size requests, navigations and completions
C1_OnePerPath == \A p \in Folders : calls[p] <= 1

\* a path is being computed while further requests for it wait in the queue
C1_Witness == \E p \in Folders : calls[p] = 1 /\ InQueue(p)

\* C2: the number of running computations never exceeds
\* FOLDER_SIZE_CONCURRENCY
C2_ConcurrencyBound ==
  /\ folderSizeActive <= FOLDER_SIZE_CONCURRENCY
  /\ SumCalls(NumFolders) <= FOLDER_SIZE_CONCURRENCY

\* the scheduler is saturated and a path waits
C2_Witness ==
  /\ SumCalls(NumFolders) = FOLDER_SIZE_CONCURRENCY
  /\ Len(folderSizeQueue) > 0
  /\ \E p \in Folders : InQueue(p) /\ calls[p] = 0

\* the cache entry of p carries the modification time of p in the listing
MtimeMatches(cache, shown, p) ==
  cache[p] # NoEntry /\ cache[p].mtime = shown[p]

IsRow(shown, p) == shown[p] # NoItem

\* the scheduler after a size request made now: renderFiles on the listing
RequestNow ==
  ScheduleVisibleFolderSizes(RenderRows(SchedState, currentItems),
                             folderSizeCache, currentItems)

\* a size request starts nothing for a row whose entry matches and shows its
\* cached size; a row whose entry does not match is queued or being computed
RequestHonoursMtime ==
  LET after == RequestNow
  IN \A p \in Folders :
       IsRow(currentItems, p) =>
         IF MtimeMatches(folderSizeCache, currentItems, p)
         THEN /\ after.calls[p] = calls[p]
              /\ after.cells[p] = SizeCell(folderSizeCache[p].size)
         ELSE \/ p \in after.inflight
              \/ \E i \in 1..Len(after.q) : after.q[i] = p

\* C13: a computation starts for a path only when its cache entry is absent
\* or carries another modification time than the listing; a size request (a
\* render of the list) starts nothing for a row whose entry matches and shows
\* its cached size, while every row whose entry does not match is queued or
\* being computed after it
C13_HitIffMtimeMatches ==
  /\ []RequestHonoursMtime
  /\ [][ \A p \in Folders :
           calls'[p] > calls[p]
             => ~MtimeMatches(folderSizeCache', currentItems', p) ]_vars

\* number of times p is waiting in the queue q
Occurrences(q, p) == Cardinality({i \in 1..Len(q) : q[i] = p})

RequestFor(p) ==
  ScheduleRows(<<p>>, SchedState, folderSizeCache, currentItems)

\* C28: a size request for a row whose computation is in flight leaves the
\* queue, the in-flight map, the active count and the running calls as
\* they are (the request has no access to the cache); it changes at most
\* the size cell of the row, when the cache has a matching entry
C28_RequestInFlightNoOp ==
  \A p \in Folders :
    (IsRow(currentItems, p) /\ p \in folderSizeInFlight) =>
      LET after == RequestFor(p)
      IN /\ after.q = folderSizeQueue
         /\ after.inflight = folderSizeInFlight
         /\ after.active = folderSizeActive
         /\ after.calls = calls
         /\ \A r \in Folders : r # p => after.cells[r] = cells[r]
         /\ ~Fresh(folderSizeCache, currentItems, p) => after.cells = cells

\* every slot is taken, a row is being computed without a matching entry,
\* and renders made meanwhile left another path twice in the queue
C28_Witness ==
  /\ folderSizeActive = FOLDER_SIZE_CONCURRENCY
  /\ Len(folderSizeQueue) >= 2
  /\ \E p \in Folders :
       /\ IsRow(currentItems, p) /\ p \in folderSizeInFlight
       /\ ~Fresh(folderSizeCache, currentItems, p)
       /\ ~InQueue(p)

\* what a completion of the computation of p may leave
Completions(p) ==
  {AfterFail(p)} \cup
    {AfterOk(p, s, m) : s \in FolderSizes, m \in Mtimes}

\* a non-empty queue means that every slot is taken
Saturated(q, inflight, active, cs) ==
  Len(q) > 0 =>
    /\ active = FOLDER_SIZE_CONCURRENCY
    /\ Cardinality(inflight) = FOLDER_SIZE_CONCURRENCY
    /\ Cardinality({r \in Folders : cs[r] > 0}) = FOLDER_SIZE_CONCURRENCY

\* C29 as stated: a completion releases its slot and starts the path at the
\* head of the queue, if there is one, in the same step; after every
\* handler a non-empty queue means that every slot is taken
C29_NextQueuedStarted ==
  /\ Saturated(folderSizeQueue, folderSizeInFlight, folderSizeActive, calls)
  /\ \A p \in Folders :
       (calls[p] > 0 /\ Len(folderSizeQueue) > 0) =>
         \A after \in Completions(p) :
           LET h == Head(folderSizeQueue)
           IN /\ after.sched.calls[h] = 1
              /\ (h = p \/ calls[h] = 0)

\* C29: a completion releases its slot and, in the same step, takes the
\* queued paths in order, dropping a path that has a matching cache entry
\* or is already being computed and starting the others, until every slot
\* is taken or the queue is empty; after every handler a non-empty queue
\* means that every slot is taken
C29_WorkConserving ==
  /\ Saturated(folderSizeQueue, folderSizeInFlight, folderSizeActive, calls)
  /\ \A p \in Folders :
       calls[p] > 0 =>
         \A after \in Completions(p) :
           LET q == folderSizeQueue
               taken == Len(q) - Len(after.sched.q)
               started == {r \in Folders :
                             after.sched.calls[r] = 1
                               /\ (r = p \/ calls[r] = 0)}
           IN /\ taken >= 0
              /\ after.sched.q = SubSeq(q, taken + 1, Len(q))
              /\ Saturated(after.sched.q, after.sched.inflight,
                           after.sched.active, after.sched.calls)
              /\ after.sched.active
                   = folderSizeActive - 1 + Cardinality(started)
              /\ \A r \in started : \E i \in 1..taken : q[i] = r
              /\ \A i \in 1..taken :
                   \/ q[i] \in started
                   \/ q[i] \in folderSizeInFlight \ {p}
                   \/ Fresh(after.cache, currentItems, q[i])

\* a computation is about to fail while the path at the head of the queue
\* is being computed already: the completion drops it and starts the path
\* queued behind it
C29_Witness ==
  \E p \in Folders :
    /\ calls[p] > 0 /\ Len(folderSizeQueue) >= 2
    /\ Head(folderSizeQueue) \in folderSizeInFlight \ {p}
    /\ LET after == AfterFail(p).sched
       IN /\ after.calls[folderSizeQueue[2]] = 1
          /\ calls[folderSizeQueue[2]] = 0

AllListings == UNION {Listings(d) : d \in Dirs}

\* C30: a navigation, by navigateTo or through the history or a tab, leaves
\* every running computation in the in-flight map with its call pending and
\* its slot counted; whatever is shown when the call returns a size, the
\* size is written to the cache under the path
C30_InFlightNeverCancelled ==
  \A p \in Folders :
    calls[p] > 0 =>
      /\ p \in folderSizeInFlight
      /\ \A l \in AllListings :
           \A after \in {AfterNavigate(l), AfterHistory(l)} :
             /\ after.calls[p] = calls[p]
             /\ p \in after.inflight
             /\ after.active >= folderSizeActive
      /\ \A s \in FolderSizes, m \in Mtimes :
           LET after == AfterOk(p, s, m)
           IN /\ after.cache[p] = [size |-> s, mtime |-> m]
              /\ \A r \in Folders \ {p} : after.cache[r] = folderSizeCache[r]
              /\ Len(after.sched.q) <= Len(folderSizeQueue)

\* a navigation to another directory happened while the size of a folder
\* was computed: the folder is no row of the list and its call is pending
C30_Witness ==
  \E p \in Folders :
    /\ calls[p] = 1 /\ ~IsRow(currentItems, p)
    /\ folderSizeCache[p] = NoEntry
    /\ \E r \in Folders : IsRow(currentItems, r) /\ calls[r] = 1

\* a request that showed the listing l and left the scheduler as after put
\* a path in the queue only for a row of l that was not being computed and
\* whose cache entry is absent or carries another modification time
QueuedOnlyWhenStale(after, l, fromEmpty) ==
  \A p \in Folders :
    Occurrences(after.q, p)
        > (IF fromEmpty THEN 0 ELSE Occurrences(folderSizeQueue, p)) =>
      /\ IsRow(l, p)
      /\ p \notin folderSizeInFlight
      /\ ~MtimeMatches(folderSizeCache, l, p)

\* what requests and completions may do to a path, seen from every state
PathMovesForward ==
  /\ QueuedOnlyWhenStale(RequestNow, currentItems, FALSE)
  /\ \A l \in AllListings : QueuedOnlyWhenStale(AfterNavigate(l), l, TRUE)
  /\ \A p \in Folders :
       calls[p] > 0 =>
         \A after \in Completions(p) :
           /\ \A r \in Folders :
                /\ Occurrences(after.sched.q, r)
                     <= Occurrences(folderSizeQueue, r)
                /\ after.sched.calls[r] > (IF r = p THEN 0 ELSE calls[r])
                     => InQueue(r)
                /\ r # p => after.cache[r] = folderSizeCache[r]

C16_QueueClearedOnNavigation ==
  [][ /\ \A i \in 1..Len(folderSizeQueue') :
           IsRow(currentItems', folderSizeQueue'[i])
      /\ \A p \in Folders :
           calls'[p] > calls[p] => IsRow(currentItems', p) ]_vars

\* C15 as stated: once the TTL has passed since an entry was written, a size
\* request for its row leaves the path queued or being computed, even when
\* the stored modification time matches; before that, a matching entry is
\* served from the cache and nothing starts
C15_TtlExpires ==
  LET after == RequestNow
  IN \A p \in Folders :
       (IsRow(currentItems, p)
          /\ MtimeMatches(folderSizeCache, currentItems, p)) =>
         IF ttlElapsed
         THEN \/ p \in after.inflight
              \/ \E i \in 1..Len(after.q) : after.q[i] = p
         ELSE after.calls[p] = calls[p]

\* one row is served from the cache with nothing running for it, while
\* another row, whose entry carries an older modification time, is being
\* recomputed
C13_Witness ==
  \E p, q \in Folders :
    /\ IsRow(currentItems, p) /\ IsRow(currentItems, q)
    /\ MtimeMatches(folderSizeCache, currentItems, p)
    /\ calls[p] = 0 /\ ~InQueue(p)
    /\ cells[p] = SizeCell(folderSizeCache[p].size)
    /\ folderSizeCache[q] # NoEntry
    /\ folderSizeCache[q].mtime # currentItems[q]
    /\ calls[q] = 1

\* C35: after every handler of the scheduler folderSizeActive is the number
\* of entries of the in-flight map and lies between 0 and the concurrency
\* limit, and a path has an entry exactly while one getItemInfo call for it
\* has not returned, whether it will return a size, a failure or an error
C35_ActiveCountsInFlight ==
  /\ folderSizeActive = Cardinality(folderSizeInFlight)
  /\ folderSizeActive >= 0 /\ folderSizeActive <= FOLDER_SIZE_CONCURRENCY
  /\ \A p \in Folders :
       /\ calls[p] <= 1
       /\ p \in folderSizeInFlight <=> calls[p] = 1

\* a computation failed while every slot was taken and a path was queued:
\* its entry is gone, and the slot it left is taken by the queued path
C35_Witness ==
  \E p \in Folders :
    /\ cells[p] = Dash /\ p \notin folderSizeInFlight /\ calls[p] = 0
    /\ folderSizeActive = FOLDER_SIZE_CONCURRENCY
    /\ folderSizeQueue = <<>>

\* C37: requests for one path are merged in the queue as in the in-flight
\* map: a path waits or runs at most once at any time, and when its
\* computation returns, with a size or with a failure, no second computation
\* of it is started from the requests made before
C37_BurstComputedOnce ==
  \A p \in Folders :
    /\ Occurrences(folderSizeQueue, p) + calls[p] <= 1
    /\ calls[p] > 0 =>
         \A c \in Completions(p) : c.sched.calls[p] = 0

(***************************************************************************)
(* Quiescence of the scheduler (checked under SpecSorted)                  *)
(***************************************************************************)
\* C36: the view being sorted by size and the user acting only on a quiet
\* scheduler, every getItemInfo call returning in the end, the scheduler
\* always comes back to a state with an empty queue and nothing in flight
C36_Quiesces == []<>Quiet

(***************************************************************************)
(* Properties of the directory lister (checked under SpecList)             *)
(***************************************************************************)
WalkEnded == lphase = "done" /\ statCount > 0

\* C18: the walk makes at most 20 stat calls and goes on only below the
\* bound; when it ends without a regular file the listing fails, with
\* "Path not found" whenever it ended by the bound or at the root (nothing
\* but missing or special entries examined); an archive listing is returned
\* only for a regular file
C18_WalkBounded ==
  /\ statCount <= SafetyLimit /\ depth <= SafetyLimit
  /\ lphase = "walk" => depth < SafetyLimit /\ listing = NoListing
  /\ lphase = "tool" => pathKinds[archivePath] = "file"
  /\ WalkEnded =>
       /\ listing.status # "none"
       /\ pathKinds[archivePath] # "file" => listing.status = "failure"
       /\ pathKinds[archivePath] \in {"none", "other"}
            => listing = Failure("Path not found")
       /\ listing.isArchive => pathKinds[archivePath] = "file"

\* the walk used the twenty stat calls on missing segments, well below the
\* root, and the listing failed with "Path not found"
C18_Witness ==
  /\ WalkEnded /\ statCount = SafetyLimit /\ archivePath > 0
  /\ Len(internalPath) = SafetyLimit
  /\ listing = Failure("Path not found")

\* the path asked for is a directory that can be read
IsRealDirectory == pathKinds[Len(dirPath)] = "dir"

\* C19: a path that is a real, readable directory is listed by real
\* enumeration, without any step of the archive branch; the archive branch
\* is entered only when reading the path failed with ENOTDIR or ENOENT, so
\* never for a directory, readable or not
C19_RealDirectoryNeverArchive ==
  /\ (IsRealDirectory /\ lphase = "done") =>
       /\ listing.status = "success" /\ ~listing.isArchive
       /\ listing.contents = SortContents(RealContents(dirEntries))
  /\ IsRealDirectory => (statCount = 0 /\ lphase \in {"readdir", "done"})
  /\ (statCount > 0 \/ lphase \in {"walk", "tool"} \/ listing.isArchive) =>
       /\ pathKinds[Len(dirPath)] \in {"none", "file", "other"}
       /\ ReaddirError(pathKinds, Len(dirPath)) \in {"ENOTDIR", "ENOENT"}

\* a real directory with two entries was listed by enumeration
C19_Witness ==
  /\ IsRealDirectory /\ lphase = "done" /\ statCount = 0
  /\ listing.status = "success" /\ ~listing.isArchive
  /\ Len(listing.contents) = 2

\* directories before the others, and within each group the letters of the
\* names in order, whatever their case
DirectoriesFirstThenByName(contents) ==
  \A i, j \in 1..Len(contents) :
    i < j =>
      /\ contents[j].isDirectory => contents[i].isDirectory
      /\ contents[i].isDirectory = contents[j].isDirectory
           => contents[i].name.c <= contents[j].name.c

\* C20: every successful listing, of a real directory or of an archive, has
\* distinct names, directories before non-directories, and each group in
\* case-insensitive order of the names
C20_ListingUniqueAndSorted ==
  listing.status = "success" =>
    /\ NamesDistinct(listing.contents)
    /\ DirectoriesFirstThenByName(listing.contents)

\* an archive listing whose rows came file first, then a folder implied by
\* a grandchild with an earlier name in another case: the folder is first
C20_Witness ==
  /\ listing.status = "success" /\ listing.isArchive
  /\ Len(toolOutput.rows) = 2 /\ Len(listing.contents) = 2
  /\ Len(toolOutput.rows[1].path) = Len(internalPath) + 1
  /\ ~toolOutput.rows[1].dAttr
  /\ Len(toolOutput.rows[2].path) = Len(internalPath) + 2
  /\ listing.contents[1].isDirectory /\ ~listing.contents[2].isDirectory
  /\ listing.contents[1].name.c > listing.contents[2].name.c
  /\ listing.contents[1].name.up # listing.contents[2].name.up

\* the rows of the tool output that lie strictly below the folder ip
DescendantRows(rows, ip) ==
  {i \in 1..Len(rows) :
     /\ Len(rows[i].path) > Len(ip)
     /\ SubSeq(rows[i].path, 1, Len(ip)) = ip}

\* the first segment, below ip, of the rows in the set of indices ds
FirstSegments(rows, ip, ds) == {rows[i].path[Len(ip) + 1] : i \in ds}

\* C21: an archive listing of the internal path I has exactly one entry for
\* every distinct first segment, below I, of the rows that are strict
\* descendants of I, and no other entry; an entry known only through deeper
\* rows is a directory, one known only through direct rows without the
\* directory attribute is a file
C21_ImmediateChildrenOnce ==
  (listing.status = "success" /\ listing.isArchive) =>
    LET ip == InternalOf(pathKinds, Len(dirPath))
        rows == toolOutput.rows
        ds == DescendantRows(rows, ip)
        names == FirstSegments(rows, ip, ds)
        cs == listing.contents
        rowsOf(nm) == {i \in ds : rows[i].path[Len(ip) + 1] = nm}
    IN /\ internalPath = ip
       /\ {cs[i].name : i \in 1..Len(cs)} = names
       /\ Len(cs) = Cardinality(names)
       /\ \A i \in 1..Len(cs) :
            /\ (\A r \in rowsOf(cs[i].name) : Len(rows[r].path) > Len(ip) + 1)
                 => cs[i].isDirectory
            /\ (\A r \in rowsOf(cs[i].name) :
                  Len(rows[r].path) = Len(ip) + 1 /\ ~rows[r].dAttr)
                 => ~cs[i].isDirectory

\* a folder inside an archive was listed from two rows naming the same
\* child, once as a direct folder row and once through a grandchild: the
\* listing has the child once, as a directory, and not the grandchild
C21_Witness ==
  /\ listing.status = "success" /\ listing.isArchive
  /\ internalPath # <<>>
  /\ Len(toolOutput.rows) = 2
  /\ Len(toolOutput.rows[1].path) = Len(internalPath) + 1
  /\ Len(toolOutput.rows[2].path) = Len(internalPath) + 2
  /\ DescendantRows(toolOutput.rows, internalPath) = {1, 2}
  /\ toolOutput.rows[1].path[Len(internalPath) + 1]
       = toolOutput.rows[2].path[Len(internalPath) + 1]
  /\ toolOutput.rows[2].path[Len(internalPath) + 2]
       # toolOutput.rows[1].path[Len(internalPath) + 1]
  /\ Len(listing.contents) = 1 /\ listing.contents[1].isDirectory

EntriesOf(item) ==
  {j \in 1..Len(listing.contents) : listing.contents[j].name = item.name}

\* the listing of a real directory has one entry for every child
OneEntryPerChild ==
  /\ listing.status = "success" /\ ~listing.isArchive
  /\ Len(listing.contents) = Len(dirEntries)
  /\ \A i \in 1..Len(dirEntries) : Cardinality(EntriesOf(dirEntries[i])) = 1

\* C23 as stated: the listing of a real directory succeeds with one entry
\* for every child, and a child whose stat or whose symlink read fails has
\* size 0 and no timestamps
C23_FailedChildHasNoMetadata ==
  (IsRealDirectory /\ lphase = "done") =>
    /\ OneEntryPerChild
    /\ \A i \in 1..Len(dirEntries) :
         LET item == dirEntries[i]
         IN (~item.statOk \/ (item.isSymlink /\ ~item.readlinkOk)) =>
              \A j \in EntriesOf(item) :
                /\ listing.contents[j].size = 0
                /\ listing.contents[j].modified = "null"
                /\ listing.contents[j].created = "null"

\* C23: the listing of a real directory succeeds with one entry for every
\* child; a child whose stat fails has size 0, no timestamps and no link
\* target; a link whose read fails after its stat succeeded has no link
\* target and keeps the size and the timestamps of the stat
C23_FailedChildDegraded ==
  (IsRealDirectory /\ lphase = "done") =>
    /\ OneEntryPerChild
    /\ \A i \in 1..Len(dirEntries) :
         LET item == dirEntries[i]
         IN \A j \in EntriesOf(item) :
              /\ listing.contents[j].isDirectory = item.isDirectory
              /\ ~item.statOk =>
                   /\ listing.contents[j].size = 0
                   /\ listing.contents[j].modified = "null"
                   /\ listing.contents[j].created = "null"
                   /\ listing.contents[j].linkTarget = "null"
              /\ (item.statOk /\ item.isSymlink /\ ~item.readlinkOk) =>
                   /\ listing.contents[j].linkTarget = "null"
                   /\ listing.contents[j].size = 1
                   /\ listing.contents[j].modified = "mtime"

\* a directory with a child that cannot be stat'ed and a link that cannot
\* be read was listed: two entries
C23_Witness ==
  /\ IsRealDirectory /\ lphase = "done" /\ listing.status = "success"
  /\ Len(dirEntries) = 2 /\ Len(listing.contents) = 2
  /\ \E i, k \in 1..2 :
       /\ ~dirEntries[i].statOk /\ ~dirEntries[i].isSymlink
       /\ dirEntries[k].isSymlink /\ dirEntries[k].statOk
       /\ ~dirEntries[k].readlinkOk

\* the entry table of the archive has the folder internalPath itself or
\* something below it
ResolvesInArchive ==
  \/ internalPath = <<>>
  \/ \E i \in 1..Len(toolOutput.rows) :
       \/ toolOutput.rows[i].path = internalPath
       \/ i \in DescendantRows(toolOutput.rows, internalPath)

\* a walk that ended without a regular file gave a failure, and so did a
\* tool that failed, with the message that names the tool
FailuresReported ==
  /\ (WalkEnded /\ pathKinds[archivePath] # "file")
       => listing.status = "failure"
  /\ (WalkEnded /\ ~toolOutput.ok) => listing.status = "failure"
  /\ (WalkEnded /\ pathKinds[archivePath] = "file" /\ ~toolOutput.ok
        /\ statCount < SafetyLimit)
       => listing = Failure("Failed to read archive (7z required)")
  /\ listing.error = "Failed to read archive (7z required)"
       => (~toolOutput.ok /\ pathKinds[archivePath] = "file")

\* C24: a listing succeeds only for a path that resolves to something, a
\* real directory or a folder known to the entry table of an archive; a
\* walk that finds no archive and a tool that fails give a failure
C24_NoSuccessForNothing ==
  /\ listing.status = "success" =>
       \/ IsRealDirectory /\ ~listing.isArchive
       \/ /\ listing.isArchive /\ pathKinds[archivePath] = "file"
          /\ ResolvesInArchive
  /\ FailuresReported

\* the longest prefix of the path asked for that exists
NearestExisting ==
  CHOOSE k \in 0..Len(dirPath) :
    /\ pathKinds[k] # "none" \/ k = 0
    /\ \A j \in (k + 1)..Len(dirPath) : pathKinds[j] = "none"

\* the walk ended by handing the file at prefix k to the archive tool
ResolvedTo(k) ==
  /\ archivePath = k /\ pathKinds[k] = "file"
  /\ \/ listing.isArchive
     \/ listing.error = "Failed to read archive (7z required)"

\* C32: when the nearest existing ancestor of the path asked for is a
\* regular file k segments above it, the walk resolves to that file for
\* every k from 0 to 20 and fails with "Path not found" for larger k
C32_TwentyAscensions ==
  (WalkEnded /\ pathKinds[NearestExisting] = "file") =>
    IF Len(dirPath) - NearestExisting <= SafetyLimit
    THEN ResolvedTo(NearestExisting)
    ELSE listing = Failure("Path not found")

\* the archive tool was or is being run
ToolInvoked ==
  \/ lphase = "tool"
  \/ listing.isArchive
  \/ listing.error = "Failed to read archive (7z required)"

\* C33: the archive tool is run only on the nearest existing ancestor of the
\* path asked for (or the path itself), and only when that is a regular file;
\* when the nearest existing ancestor is a directory the tool is never run and
\* the walk ends in a failure
C33_ArchiveIsFirstExistingFile ==
  /\ ToolInvoked =>
       /\ archivePath = NearestExisting
       /\ pathKinds[archivePath] = "file"
  /\ pathKinds[NearestExisting] \in {"dir", "locked"} =>
       /\ ~ToolInvoked
       /\ WalkEnded => listing.status = "failure"

\* an archive one segment above the path asked for was found by the walk, in
\* two stat calls, and a folder of it was listed
C33_Witness ==
  /\ WalkEnded /\ listing.isArchive /\ statCount = 2
  /\ Len(internalPath) = 1 /\ archivePath = Len(dirPath) - 1
  /\ Len(listing.contents) >= 1

\* C34: in an archive listing every child is a directory exactly when the
\* first row naming it lies deeper than one segment below the internal path
\* or carries the directory attribute, and a child named both by a direct
\* row and by a grandchild row is listed once, as a directory
C34_CollapsedToDirectory ==
  (listing.status = "success" /\ listing.isArchive) =>
    LET ip == internalPath
        rows == toolOutput.rows
        ds == DescendantRows(rows, ip)
        cs == listing.contents
        rowsOf(nm) == {i \in ds : rows[i].path[Len(ip) + 1] = nm}
        first(nm) == CHOOSE i \in rowsOf(nm) : \A j \in rowsOf(nm) : i <= j
    IN \A c \in 1..Len(cs) :
         /\ rowsOf(cs[c].name) # {}
         /\ cs[c].isDirectory <=>
              \/ Len(rows[first(cs[c].name)].path) > Len(ip) + 1
              \/ rows[first(cs[c].name)].dAttr
         /\ \A d \in 1..Len(cs) : cs[d].name = cs[c].name => d = c
         /\ ( /\ \E i \in rowsOf(cs[c].name) : Len(rows[i].path) = Len(ip) + 1
              /\ \E i \in rowsOf(cs[c].name) : Len(rows[i].path) > Len(ip) + 1 )
              => cs[c].isDirectory

(***************************************************************************)
(* Properties of the walk on paths that were not normalised (SpecDots)     *)
(***************************************************************************)
\* the candidate archive path, as segments
CandidatePath == SubSeq(dirPath, 1, archivePath)

InWalk == lphase \in {"walk", "tool"} \/ WalkEnded

HasDots(p) == \E i \in 1..Len(p) : p[i] \in {DotSeg, DotDotSeg}

\* C39 as stated: at every iteration of the walk the candidate archive path
\* followed by the internal path is the path asked for, segment by segment
C39_JoinGivesBackPath ==
  InWalk => CandidatePath \o internalPath = dirPath

\* C39: at every iteration of the walk the candidate archive path followed by
\* the internal path is the path asked for once both are normalised, and is
\* the path asked for segment by segment when that path has no "." and no
\* ".." segment
C39_JoinGivesBackNormalised ==
  InWalk =>
    /\ NormalizeInto(<<>>, CandidatePath \o internalPath)
         = NormalizeInto(<<>>, dirPath)
    /\ ~HasDots(dirPath) => CandidatePath \o internalPath = dirPath

\* an archive was found three segments above a path without "." or "..",
\* and the internal path holds these three segments
C39_Witness ==
  /\ lphase = "tool" /\ ~HasDots(dirPath)
  /\ Len(dirPath) = 4 /\ archivePath = 1
  /\ internalPath = SubSeq(dirPath, 2, 4)

(***************************************************************************)
(* Properties of the navigation history (checked under SpecNav)            *)
(***************************************************************************)
\* C40: when no listing is awaited and the history is not empty, it holds at
\* most MAX_HISTORY_LENGTH paths, historyIndex is one of its positions and
\* the path at that position is the path shown
C40_HistoryConsistent ==
  (navPending = <<>> /\ history # <<>>) =>
    /\ Len(history) <= MAX_HISTORY_LENGTH
    /\ historyIndex >= 0 /\ historyIndex < Len(history)
    /\ history[historyIndex + 1] = currentPath

(***************************************************************************)
(* Properties of the size cache (checked under SpecCache)                  *)
(***************************************************************************)
\* C14 as stated: the cache never holds more entries than the ceiling, and
\* inserting a new path into a full cache leaves exactly the ceiling, the
\* oldest-inserted entry being the one removed
C14_NeverAboveCeiling ==
  [][ /\ Len(cacheKeys') <= MAX_FOLDER_SIZE_CACHE_ENTRIES
      /\ (Len(cacheKeys) = MAX_FOLDER_SIZE_CACHE_ENTRIES
            /\ ~HasKey(cacheKeys, lastSet') /\ lastSet' # lastSet)
           => cacheKeys' = Append(Tail(cacheKeys), lastSet') ]_vars

\* C14: an insertion never removes an entry; when the save timer fires the
\* cache is cut to the ceiling by removing the oldest-inserted entries, also
\* when the oldest was the last one written; so the cache is within the
\* ceiling whenever no save is pending
C14_TrimmedAtSave ==
  [][ /\ ~saveTimer' => Len(cacheKeys') <= MAX_FOLDER_SIZE_CACHE_ENTRIES
      /\ saveTimer' =>
           /\ \A i \in 1..Len(cacheKeys) : cacheKeys'[i] = cacheKeys[i]
           /\ Len(cacheKeys') \in {Len(cacheKeys), Len(cacheKeys) + 1}
      /\ (saveTimer /\ ~saveTimer') =>
           LET drop == Len(cacheKeys) - Len(cacheKeys')
           IN /\ drop = IF Len(cacheKeys) > MAX_FOLDER_SIZE_CACHE_ENTRIES
                         THEN Len(cacheKeys) - MAX_FOLDER_SIZE_CACHE_ENTRIES
                         ELSE 0
              /\ \A i \in 1..Len(cacheKeys') :
                   cacheKeys'[i] = cacheKeys[i + drop] ]_vars

\* the ceiling plus one paths were inserted and the save fired: the ceiling
\* is met and the first path is gone, although it was the last one written
C14_Witness ==
  /\ ~saveTimer /\ lastSet = 1
  /\ Len(cacheKeys) = MAX_FOLDER_SIZE_CACHE_ENTRIES
  /\ Head(cacheKeys) = 2

(***************************************************************************)
(* Properties of the transfer engine (checked under SpecXfer)              *)
(***************************************************************************)
Last(sq) == sq[Len(sq)]

NonDecreasing(ev) ==
  \A i \in 1..(Len(ev) - 1) : PercentLeq(ev[i], ev[i + 1])

Finished == phase = "done"

\* C3: within one call processedBytes and processedFiles never decrease and
\* the percentages sent form a non-decreasing sequence
C3_ProgressMonotone ==
  [][ /\ processedBytes' >= processedBytes
      /\ processedFiles' >= processedFiles
      /\ Len(events') >= Len(events)
      /\ SubSeq(events', 1, Len(events)) = events
      /\ NonDecreasing(events') ]_vars

\* a batch that sent several percentages, the last above the first
C3_Witness ==
  /\ Finished /\ Len(events) >= 2
  /\ ~PercentLeq(Last(events), events[1])

CopyDisjoint ==
  \A i, j \in 1..Len(items) :
    /\ Unrelated(items[i].dest, items[j].source)
    /\ i # j => Unrelated(items[i].dest, items[j].dest)

MoveDisjoint ==
  /\ CopyDisjoint
  /\ \A i, j \in 1..Len(items) :
       i # j => Unrelated(items[i].source, items[j].source)

\* C5: a Copy batch that completes on a filesystem unchanged since the scan
\* ends with processedBytes = totalBytes and a last percentage of 100, also
\* when its sources hold only empty files or empty directories
C5_CopyEndsComplete ==
  (Finished /\ operation = "copy" /\ result = "success" /\ ~rewritten
     /\ CopyDisjoint)
  => /\ processedBytes = totalBytes
     /\ events # <<>> => Last(events) = <<100, 1>>

\* C6: every percentage sent lies in [0, 100]
C6_PercentInRange ==
  \A i \in 1..Len(events) :
    PercentLeq(<<0, 1>>, events[i]) /\ PercentLeq(events[i], <<100, 1>>)

\* a percentage was sent when processedBytes had passed totalBytes
C6_Witness ==
  /\ events # <<>> /\ processedBytes > totalBytes
  /\ Last(events) = <<100, 1>>

\* C7: the scan of every item ends before the first operation of the
\* execute phase; from then on totalBytes is at least 1 and never changes
C7_TotalFixed ==
  [][ /\ phase' = "scan" => opItem' = 0 /\ processedFiles' = 0
      /\ (phase = "scan" /\ phase' # "scan") => idx = Len(items)
      /\ phase' # "scan" => totalBytes' >= 1
      /\ phase # "scan" => totalBytes' = totalBytes ]_vars

\* a source was rewritten during the execute phase of a batch
C7_Witness ==
  /\ Finished /\ rewritten /\ opItem > 0 /\ fs # fs0
  /\ processedBytes > totalBytes

\* C8: the operations of the execute phase follow the submission order of
\* the items: every pending call belongs to the current item
C8_SubmissionOrder ==
  [][ /\ opItem' >= opItem
      /\ opItem' # opItem => opItem' = idx
      /\ phase' = "exec" =>
           \A k \in 1..Len(stack') : stack'[k].item = idx' ]_vars

\* a batch of several items whose last item copied a file after the first
C8_Witness ==
  /\ Finished /\ result = "success" /\ Len(items) > 1
  /\ opItem = Len(items) /\ processedFiles >= 2

\* the files that lay under the source of item i when the batch started
SourceFiles(i) ==
  {q \in Paths : IsPrefix(items[i].source, q) /\ fs0[q].k = "file"}

SourceNodes(i) ==
  {q \in Paths : IsPrefix(items[i].source, q) /\ fs0[q].k # "none"}

DestOf(i, q) == items[i].dest \o Below(items[i].source, q)

CopiedAll ==
  \A i \in 1..Len(items) : \A q \in SourceFiles(i) :
    Node(fs, DestOf(i, q)) = fs0[q] /\ fs[q] = fs0[q]

\* C9 as stated: after a successful Copy batch every source file is at its
\* destination with the same content and still at its source, unchanged
C9_CopyPreserves ==
  (Finished /\ operation = "copy" /\ result = "success" /\ ~rewritten)
  => CopiedAll

\* C9 amended: the same for batches in which no destination is, contains or
\* lies inside a source or another destination
C9_CopyPreservesDisjoint ==
  (Finished /\ operation = "copy" /\ result = "success" /\ ~rewritten
     /\ CopyDisjoint)
  => CopiedAll

\* two files copied by a batch of two non-overlapping items
C9_Witness ==
  /\ Finished /\ operation = "copy" /\ result = "success" /\ ~rewritten
  /\ CopyDisjoint /\ Len(items) = 2 /\ items[1] # items[2]
  /\ processedFiles = 2

MovedAll ==
  \A i \in 1..Len(items) :
    /\ Node(fs, items[i].source).k = "none"
    /\ \A q \in SourceNodes(i) : Node(fs, DestOf(i, q)) = fs0[q]

\* C10 as stated: after a Move batch whose renames all succeeded no source
\* exists and every destination holds what its source held
C10_MoveTransfers ==
  (Finished /\ operation = "move" /\ ~renameFailed /\ ~rewritten)
  => MovedAll

\* C10 amended: the same for batches whose sources and destinations are
\* pairwise unrelated paths
C10_MoveTransfersDisjoint ==
  (Finished /\ operation = "move" /\ ~renameFailed /\ ~rewritten
     /\ MoveDisjoint)
  => MovedAll

\* two entries moved by renames in a batch of two non-overlapping items
C10_Witness ==
  /\ Finished /\ operation = "move" /\ ~renameFailed /\ ~rewritten
  /\ MoveDisjoint /\ Len(items) = 2 /\ result = "success"
  /\ Len(events) = 2

\* C12: a call returns one result, which never changes: success only after
\* every item was attempted, in turn, and none threw; failure exactly when
\* the processing of an item threw, attributed to that item; a result is
\* returned only when no call of the handler is pending
C12_OneResult ==
  [][ /\ result # "none" => result' = result
      /\ opItem' \in {opItem, opItem + 1}
      /\ result' # "none" => phase' = "done" /\ stack' = <<>>
      /\ phase' = "done" => result' # "none"
      /\ result' = "success" => threw' = 0 /\ opItem' = Len(items)
      /\ result' = "failure" => threw' # 0 /\ threw' = opItem' ]_vars

\* a batch whose second item threw after the first was transferred, and the
\* handler returned the failure
C12_Witness ==
  /\ Finished /\ result = "failure" /\ threw = 2 /\ opItem = 2
  /\ processedFiles >= 1 /\ stack = <<>>

\* the sum of the sizes of the files of f at or below p
RECURSIVE SumSizes(_, _)
SumSizes(f, ps) ==
  IF ps = {} THEN 0
  ELSE LET q == CHOOSE x \in ps : TRUE
       IN f[q].size + SumSizes(f, ps \ {q})

TreeBytes(f, p) ==
  SumSizes(f, {q \in Paths : IsPrefix(p, q) /\ f[q].k = "file"})

\* the step about to be taken is a rename of the current item that succeeds
RenameSucceeds ==
  /\ phase = "exec" /\ stack # <<>> /\ Top.op = "rename"
  /\ RenameOk(fs, Top.src, Top.dest, xdev)
  /\ rewritten' = rewritten

\* C25: in Move mode a rename that succeeds adds to processedBytes, in that
\* one step, the sum of the sizes the files under the item's source had
\* when the batch was scanned, sends one percentage and ends the item
C25_RenameCreditsTree ==
  [][ RenameSucceeds =>
        /\ processedBytes' = processedBytes + TreeBytes(fs0, Top.src)
        /\ Len(events') = Len(events) + 1
        /\ processedFiles' = processedFiles
        /\ (phase' = "done" \/ idx' = idx + 1) ]_vars

CopyOps == {"copy", "mkdir", "readdir", "copyFile"}

\* a pending delete belongs to a move whose rename failed, is the last call
\* of the current item, and waits behind the calls of the copy only
DeleteAfterCopy ==
  \A k \in 1..Len(stack) :
    stack[k].op = "rm" =>
      /\ operation = "move" /\ renameFailed
      /\ k = Len(stack)
      /\ stack[k].item = idx /\ stack[k].src = items[idx].source
      /\ \A j \in 1..(k - 1) :
           stack[j].item = idx /\ stack[j].op \in CopyOps

\* the step about to be taken belongs to the handler and its top call is op
EngineStep(op) ==
  /\ phase = "exec" /\ stack # <<>> /\ Top.op = op
  /\ rewritten' = rewritten

\* every file now under the source of item i is at its place under the
\* destination with the same content
CopiedNow(i) ==
  \A q \in Paths :
    (IsPrefix(items[i].source, q) /\ fs[q].k = "file")
      => Node(fs, DestOf(i, q)) = fs[q]

\* C26: in Move mode a rename that fails changes nothing and leaves, for
\* the item, a recursive copy followed by a recursive delete of the source;
\* every file copied adds its size to processedBytes, one to
\* processedFiles and one percentage; the delete runs when the copy has
\* returned, with the files of the source at the destination, and removes
\* the source
C26_FallbackCopiesThenDeletes ==
  /\ []DeleteAfterCopy
  /\ [][ /\ (EngineStep("rename")
               /\ ~RenameOk(fs, Top.src, Top.dest, xdev)) =>
              /\ stack' = <<Frame("copy", Top.src, Top.dest, 0, idx),
                            Frame("rm", Top.src, Top.dest, 0, idx)>>
              /\ fs' = fs /\ processedBytes' = processedBytes
              /\ events' = events
         /\ (operation = "move" /\ EngineStep("copyFile")
               /\ CopyFileOk(fs, Top.src, Top.dest)) =>
              /\ processedBytes' = processedBytes + Top.size
              /\ processedFiles' = processedFiles + 1
              /\ Len(events') = Len(events) + 1
              /\ fs'[Top.dest] = fs[Top.src]
              /\ ~rewritten => Top.size = fs[Top.src].size
         /\ EngineStep("rm") =>
              /\ ~rewritten => CopiedNow(idx)
              /\ fs' = Rm(fs, items[idx].source)
              /\ processedBytes' = processedBytes /\ events' = events
       ]_vars

\* a directory of two files was moved across devices: the rename failed,
\* two files were copied with one percentage each, and the source is gone
C26_Witness ==
  /\ Finished /\ operation = "move" /\ xdev /\ renameFailed
  /\ result = "success" /\ Len(items) = 1 /\ ~rewritten
  /\ processedFiles = 2 /\ Len(events) = 2
  /\ fs0[items[1].source].k = "dir"
  /\ Node(fs, items[1].source).k = "none"
  /\ \A q \in SourceFiles(1) : Node(fs, DestOf(1, q)) = fs0[q]

\* C38: when a move of one item has ended, by the batch engine or by
\* "move-item", no file of the source tree is lost (it is unchanged at its
\* place or its content is at its place under the destination); when the
\* move ended in a failure the files of the source tree are all in place,
\* and the source is removed only by a move that ends in success
C38_MoveKeepsData ==
  (Finished /\ operation \in {"move", "moveItem"} /\ Len(items) = 1
     /\ ~rewritten) =>
    /\ \A q \in SourceFiles(1) :
         fs[q] = fs0[q] \/ Node(fs, DestOf(1, q)) = fs0[q]
    /\ result = "failure" => \A q \in SourceFiles(1) : fs[q] = fs0[q]
    /\ (\E q \in SourceFiles(1) : fs[q].k = "none") => result = "success"

\* the files at or below p that a scan can reach: no unreadable directory
\* lies between p and the file
VisibleFiles(f, p) ==
  {q \in Paths :
     /\ IsPrefix(p, q) /\ f[q].k = "file"
     /\ \A n \in Len(p)..(Len(q) - 1) : Node(f, SubSeq(q, 1, n)).k # "locked"}

\* bytes and files the scan can reach under the sources of the items 1..n
RECURSIVE VisibleBytes(_)
VisibleBytes(n) ==
  IF n = 0 THEN 0
  ELSE SumSizes(fs0, VisibleFiles(fs0, items[n].source)) + VisibleBytes(n - 1)

RECURSIVE VisibleCount(_)
VisibleCount(n) ==
  IF n = 0 THEN 0
  ELSE Cardinality(VisibleFiles(fs0, items[n].source)) + VisibleCount(n - 1)

\* C27 (checked under SpecScan): while the batch is scanned nothing is
\* returned, thrown, written or reported and a scan call is pending; once
\* the scan is over the totals are those of the files it could reach under
\* every item, a missing source and the content of an unreadable directory
\* counting for nothing; no batch ends without an execute step
C27_ScanNeverFails ==
  /\ phase = "scan" =>
       /\ result = "none" /\ threw = 0 /\ opItem = 0
       /\ fs = fs0 /\ processedBytes = 0 /\ events = <<>>
       /\ stack # <<>>
       /\ \A k \in 1..Len(stack) : stack[k].op \in {"scan", "scanDir"}
  /\ phase # "scan" =>
       /\ totalFiles = VisibleCount(Len(items))
       /\ totalBytes = FloorTotal(VisibleBytes(Len(items)))
  /\ Finished => opItem >= 1

\* the scan of a directory that holds an unreadable directory with a file
\* and, after it in readdir order, a readable file has ended: the second
\* file was counted, the first was not, and the transfer ran
C27_Witness ==
  /\ Finished /\ Len(items) = 1 /\ opItem = 1
  /\ \E q \in Paths :
       /\ IsPrefix(items[1].source, q) /\ fs0[q].k = "file"
       /\ fs0[q].size > 0 /\ q \notin VisibleFiles(fs0, items[1].source)
  /\ totalFiles = 1
  /\ totalBytes < TreeBytes(fs0, items[1].source)

(***************************************************************************)
(* Properties of the callers (checked under SpecCall)                      *)
(***************************************************************************)
\* item it is a self-drop: same path, destination directory is the source's
\* parent, or destination inside the source
SelfDrop(it) ==
  \/ it.source.segs = it.dest.segs
  \/ Parent(it.dest.segs) = Parent(it.source.segs)
  \/ IsPrefix(it.source.segs, it.dest.segs)

\* C11: every batch a caller submits to the transfer engine has no item
\* whose source and destination are the same path, whose destination
\* directory is the source's parent, or whose destination lies inside its
\* source
C11_NoSelfDrop ==
  sent => \A i \in 1..Len(batchItems) : ~SelfDrop(batchItems[i])

====
